---------------------------- MODULE Spec2Model ----------------------------
(***************************************************************************)
(* A model of the Lotus JSON-RPC client of thctl (package internal/lotus): *)
(* the transport and its retry loops, the endpoint resolver and the        *)
(* "comprehensive miner info" aggregate.  The repository holds several     *)
(* co-existing implementations of the same client; each one that the       *)
(* properties below are about is modelled, and a variable records which    *)
(* implementation a behaviour runs.                                        *)
(*                                                                         *)
(* Strings that the code parses or builds (endpoints, URLs) are sequences  *)
(* of tokens, the separator "/" and ":" being tokens of their own, so that *)
(* HasPrefix, Split and Sprintf are computed and not assumed.              *)
(***************************************************************************)
EXTENDS Integers, Sequences, FiniteSets, TLC

VARIABLES
    \* ---- the retried call (SpecRetry) ----
    rImpl,          \* which implementation of the retried call runs
    RetryCount,     \* Config.RetryCount of the client
    rPc,            \* position of the call: "idle", "loop", "inflight", "sleep", "done"
    i,              \* the loop index of the retry loop
    calls,          \* number of httpClient.Do invocations so far
    sleeps,         \* number of time.Sleep calls so far
    ctxCancelled,   \* the caller's context has been cancelled
    callsAfterCancel,  \* httpClient.Do invocations begun after the cancellation
    sleepsAfterCancel, \* time.Sleep calls begun after the cancellation
    firstResp,      \* what the transport answered to the first attempt
    lastResp,       \* what the transport answered to the latest attempt
    allRetryable,   \* every attempt so far failed with a retryable failure
    ret,            \* the error the call returned (NoErr for nil), once done
    \* ---- the endpoint resolver (SpecResolve) ----
    vImpl,          \* which implementation resolves the endpoint
    ctor,           \* the constructor the client was built with
    apiURL,         \* the configured endpoint (Client.apiURL), a token string
    vPc,            \* "new", "built", "done"
    httpURL,        \* the URL the HTTP request was sent to (<<>>: none was sent)
    vErr,           \* the error text of the constructor or the call ("" for nil)
    \* ---- the Domain Client and the aggregate (SpecAgg) ----
    aImpl,          \* which implementation of GetComprehensiveMinerInfo runs
    op,             \* the method the caller invokes
    minerID,        \* its miner identifier argument
    aPc,            \* position of the method: "start", ..., "returned"
    info,           \* the fields of the MinerInfo record that are populated
    retInfo,        \* what the method returned: "nil", "info" (the record), "result"
    retErr,         \* the error it returned (NoErr for nil)
    rpcIssued,      \* an HTTP request has been issued
    aCtx,           \* the caller's context has been cancelled
    timer,          \* time.After(30s): "off", "armed", "fired"
    unfinishedAtDeadline, \* a sub-call was unfinished when the timer fired
    sem,            \* slots of the semaphore channel in use
    semClosed,      \* the semaphore channel has been closed
    wg,             \* the WaitGroup counter
    doneClosed,     \* the done channel has been closed
    task,           \* per fanned-out task: where its goroutines are
    attempt,        \* per task: the loop index i of asyncRetry
    failures,       \* failing answers given to the non-fatal calls so far
    gStep,          \* part_012: per goroutine of the errgroup, the calls it has made
    gErr,           \* part_012: the first error a goroutine returned to the errgroup
    \* ---- the display formatters (SpecFormat) ----
    fImpl,          \* which formatter is applied
    fIn,            \* its argument, a string as a sequence of characters
    fPc,            \* "ready", then "done"
    fOut,           \* the string it returned, as a sequence of fragments
    \* ---- the construction of a client (SpecConfig) ----
    kCtor,          \* which constructor builds the client
    kCfg,           \* the configuration it is given: <<>> for nil, else <<Config>>
    kPc,            \* "new", "built", "calling", "done"
    kClient,        \* the endpoint, timeout and retry count the client works with
    kAttempts,      \* attempts made by a call that keeps failing retryably
    \* ---- the sectors list command (SpecCli) ----
    sImpl,          \* which copy of newListCmd runs
    sFlags,         \* the values of --api-url and --auth-token ("" when absent)
    sFile,          \* the endpoint and token of the resolved configuration
    sPc,            \* "run", then "built"
    sClient,        \* the endpoint and token the Lotus client is constructed with
    \* ---- the classifiers (SpecClassify) ----
    qFn,            \* which classifier is applied
    qText,          \* the text of the error given to isRetryableError, as characters
    qCode,          \* the code of the RPC error given to handleRPCError
    qPc,            \* "ready", then "done"
    qRetry,         \* what isRetryableError returned
    qErr,           \* what handleRPCError returned
    \* ---- the parameter lists of the miner-scoped methods (SpecParams) ----
    jMethod,        \* the Domain Client method called
    jMinerID,       \* its miner identifier argument
    jDlIdx,         \* its deadline index argument (GetMinerPartitions)
    jPc,            \* "call", "built", "sent"
    jParams,        \* the params slice the method builds
    jBody,          \* the "params" member of the JSON request, token by token
    \* ---- the network power share (SpecShare) ----
    hImpl,          \* which copy of calculatePowerShare is applied
    hPower,         \* the miner power string, as characters
    hNet,           \* the network power string, as characters
    hPc,            \* "ready", "computed", "shown"
    hShare,         \* what calculatePowerShare returned, or that it panicked
    hStat,          \* the number the display prints before the % sign
    \* ---- the sector counts of the aggregate (SpecSectors) ----
    nImpl,          \* which copy of GetComprehensiveMinerInfo runs
    nLive,          \* length of the sector list the node returns
    nFaults,        \* length of the fault list the node returns
    nDone,          \* the sub-tasks that have finished
    nRec,           \* the sector counts of the record
    \* ---- LoadFilConfig (SpecEnv) ----
    eCwd,           \* .thctl.env of the current directory: <<>> when absent, else
                    \* <<v>>, v the value it gives LOTUS_API_URL ("" when none)
    eHome,          \* .thctl.env of the home directory, likewise
    eEnv,           \* LOTUS_API_URL in the process environment ("" when unset)
    ePc,            \* "start", "defaults", "loaded", "done"
    eURL,           \* cfg.LotusAPI.URL
    \* ---- config.Load (SpecOnce) ----
    oCwd,           \* .thctl.env of the current directory: "absent", "ok", "bad"
    oHome,          \* .thctl.env of the home directory, likewise
    oEnv,           \* LOTUS_API_URL in the process environment ("" when unset)
    oOnce,          \* configOnce has run its function
    oConfig,        \* the package variable config: <<>> for nil, else <<Config>>
    oLoads,         \* calls of Load made so far
    oFirstErr,      \* the first call returned an error
    oRet,           \* what the last call returned
    \* ---- GetMinerPowerRank (SpecRank) ----
    mRaw,           \* per listed miner, its RawBytePower string, as characters
    mAdj,           \* per listed miner, its QualityAdjPower string
    mTarget,        \* the listed miner whose rank is asked for
    mPc,            \* "call", then "returned"
    mRawRank,       \* the raw rank returned
    mAdjRank,       \* the quality-adjusted rank returned
    \* ---- the authentication callback (SpecAuth) ----
    bBody,          \* per request POSTed to /callback: its body decodes
    bHandler,       \* per request: where handleCallback is
    bWait,          \* WaitForCallback: "select", or what it returned
    bServer,        \* the server goroutine: "serving", "failing", "reported", "closed"
    bShutdown       \* a goroutine calling c.server.Shutdown has been started

retryVars == <<rImpl, RetryCount, rPc, i, calls, sleeps, ctxCancelled,
               callsAfterCancel, sleepsAfterCancel, firstResp, lastResp,
               allRetryable, ret>>

resolveVars == <<vImpl, ctor, apiURL, vPc, httpURL, vErr>>

aggVars == <<aImpl, op, minerID, aPc, info, retInfo, retErr, rpcIssued, aCtx, timer,
             unfinishedAtDeadline, sem, semClosed, wg, doneClosed, task, attempt,
             failures, gStep, gErr>>

fmtVars == <<fImpl, fIn, fPc, fOut>>

cfgVars == <<kCtor, kCfg, kPc, kClient, kAttempts>>

cliVars == <<sImpl, sFlags, sFile, sPc, sClient>>

classifyVars == <<qFn, qText, qCode, qPc, qRetry, qErr>>

paramVars == <<jMethod, jMinerID, jDlIdx, jPc, jParams, jBody>>

shareVars == <<hImpl, hPower, hNet, hPc, hShare, hStat>>

sectorVars == <<nImpl, nLive, nFaults, nDone, nRec>>

envVars == <<eCwd, eHome, eEnv, ePc, eURL>>

onceVars == <<oCwd, oHome, oEnv, oOnce, oConfig, oLoads, oFirstErr, oRet>>

rankVars == <<mRaw, mAdj, mTarget, mPc, mRawRank, mAdjRank>>

authVars == <<bBody, bHandler, bWait, bServer, bShutdown>>

\* the variables each machine leaves alone
notRetry == <<resolveVars, aggVars, fmtVars, cfgVars, cliVars, classifyVars, paramVars, shareVars, sectorVars, envVars, onceVars, rankVars, authVars>>
notResolve == <<retryVars, aggVars, fmtVars, cfgVars, cliVars, classifyVars, paramVars, shareVars, sectorVars, envVars, onceVars, rankVars, authVars>>
notAgg == <<retryVars, resolveVars, fmtVars, cfgVars, cliVars, classifyVars, paramVars, shareVars, sectorVars, envVars, onceVars, rankVars, authVars>>
notFormat == <<retryVars, resolveVars, aggVars, cfgVars, cliVars, classifyVars, paramVars, shareVars, sectorVars, envVars, onceVars, rankVars, authVars>>
notConfig == <<retryVars, resolveVars, aggVars, fmtVars, cliVars, classifyVars, paramVars, shareVars, sectorVars, envVars, onceVars, rankVars, authVars>>
notCli == <<retryVars, resolveVars, aggVars, fmtVars, cfgVars, classifyVars, paramVars, shareVars, sectorVars, envVars, onceVars, rankVars, authVars>>
notClassify == <<retryVars, resolveVars, aggVars, fmtVars, cfgVars, cliVars, paramVars, shareVars, sectorVars, envVars, onceVars, rankVars, authVars>>
notParams == <<retryVars, resolveVars, aggVars, fmtVars, cfgVars, cliVars, classifyVars, shareVars, sectorVars, envVars, onceVars, rankVars, authVars>>
notShare == <<retryVars, resolveVars, aggVars, fmtVars, cfgVars, cliVars, classifyVars, paramVars, sectorVars, envVars, onceVars, rankVars, authVars>>
notSectors == <<retryVars, resolveVars, aggVars, fmtVars, cfgVars, cliVars, classifyVars, paramVars, shareVars, envVars, onceVars, rankVars, authVars>>
notEnv == <<retryVars, resolveVars, aggVars, fmtVars, cfgVars, cliVars, classifyVars, paramVars, shareVars, sectorVars, onceVars, rankVars, authVars>>
notOnce == <<retryVars, resolveVars, aggVars, fmtVars, cfgVars, cliVars, classifyVars, paramVars, shareVars, sectorVars, envVars, rankVars, authVars>>
notRank == <<retryVars, resolveVars, aggVars, fmtVars, cfgVars, cliVars, classifyVars, paramVars, shareVars, sectorVars, envVars, onceVars, authVars>>
notAuth == <<retryVars, resolveVars, aggVars, fmtVars, cfgVars, cliVars, classifyVars, paramVars, shareVars, sectorVars, envVars, onceVars, rankVars>>

-----------------------------------------------------------------------------
(* Bounds of the model *)

\* longest multiaddress explored, in components
MaxComponents == 2

\* how many of the aggregate's fanned-out tasks (client.go) and errgroup
\* goroutines (part_012) are modelled: the first ones of each list. While it
\* stays at or below maxConcurrency no worker ever waits for a slot of the
\* semaphore.
NumTasks == 4

\* how many failing answers the remote end gives to the calls of the
\* aggregate whose failure does not end it
MaxFailures == 1

\* largest Config.RetryCount explored
MaxRetryCount == 3

\* longest formatter argument explored exhaustively, in characters
MaxChars == 3

\* how far from -32000 the server-specific RPC error codes of the model lie
MaxCodeOffset == 8

\* the largest deadline index given to GetMinerPartitions
MaxDeadline == 3

\* longest power string given to calculatePowerShare, in characters
MaxPowerChars == 2

\* the longest sector list and fault list the node returns
MaxSectors == 3

\* the number of calls of config.Load in one process
MaxLoads == 3

\* the number of miners Filecoin.StateListMiners returns
NumMiners == 2

\* the number of requests POSTed to /callback
NumCallbacks == 2

-----------------------------------------------------------------------------
(* Errors: errors.go, rpc.go *)

\* a value that stands for "no response yet"
NoResp == [kind |-> "none", status |-> 0, body |-> "none", code |-> 0]

\* An error value: kind is its dynamic type ("nil" for the nil error), code the
\* ErrorCode of a *LotusError, wraps the error it wraps with %w (<<>> when it
\* wraps none: %v formats the cause into the text and drops it), resp the
\* transport answer the error was made from.
\* the nil error
NoErr == [kind |-> "nil", code |-> "none", text |-> "", wraps |-> <<>>, resp |-> NoResp]

\* NewLotusError(code, message, nil): a *LotusError
NewLotusError(code, message) ==
    [kind |-> "LotusError", code |-> code, text |-> message, wraps |-> <<>>,
     resp |-> NoResp]

\* fmt.Errorf(text + ": %v", cause), errors.New(text): a plain error
Errorf_v(text, resp) ==
    [kind |-> "plain", code |-> "none", text |-> text, wraps |-> <<>>, resp |-> resp]

\* fmt.Errorf(text + ": %w", cause): a plain error wrapping cause
Errorf_w(text, cause) ==
    [kind |-> "plain", code |-> "none", text |-> text, wraps |-> <<cause>>,
     resp |-> cause.resp]

\* the context's error (context.Canceled)
CtxCanceled ==
    [kind |-> "ctx", code |-> "none", text |-> "context canceled", wraps |-> <<>>,
     resp |-> NoResp]

\* rpc.go: handleHTTPError
handleHTTPError(status) ==
    CASE status = 401 -> NewLotusError("ErrAuthentication", "unauthorized")
      [] status = 404 -> NewLotusError("ErrNotFound", "not found")
      [] status = 500 -> NewLotusError("ErrConnection", "internal server error")
      [] OTHER        -> NewLotusError("ErrUnknown", "unexpected status code")

\* rpc.go: handleRPCError
handleRPCError(code) ==
    CASE code = -32000 -> NewLotusError("ErrUnknown", "rpc")
      [] code = -32001 -> NewLotusError("ErrInvalidParams", "rpc")
      [] code = -32002 -> NewLotusError("ErrMethodNotFound", "rpc")
      [] code = -32003 -> NewLotusError("ErrInvalidRequest", "rpc")
      [] OTHER         -> NewLotusError("ErrUnknown", "rpc")

\* errors.go: IsNotFound, a type assertion on the error itself (no unwrapping)
IsNotFound(err) ==
    IF err.kind = "LotusError" THEN err.code = "ErrNotFound" ELSE FALSE

-----------------------------------------------------------------------------
(* What the remote end can answer to one httpClient.Do *)

NetErr == [kind |-> "neterr", status |-> 0, body |-> "none", code |-> 0]
CtxErr == [kind |-> "ctxerr", status |-> 0, body |-> "none", code |-> 0]
Http(status, body, code) ==
    [kind |-> "http", status |-> status, body |-> body, code |-> code]

\* the answers explored: a connection failure, HTTP errors with a non-JSON
\* body, RPC error objects, a result, a result of the wrong shape
Responses ==
    { NetErr,
      Http(401, "garbage", 0), Http(404, "garbage", 0), Http(500, "garbage", 0),
      Http(200, "rpcerror", -32001), Http(200, "rpcerror", -32000),
      Http(200, "result", 0), Http(200, "badresult", 0) }

\* the classification of an answer, as the error taxonomy derives it
ClassOf(resp) ==
    CASE resp.kind \in {"neterr", "ctxerr"} -> "ErrConnection"
      [] resp.kind = "http" /\ resp.status # 200 -> handleHTTPError(resp.status).code
      [] resp.kind = "http" /\ resp.body = "rpcerror" -> handleRPCError(resp.code).code
      [] OTHER -> "none"

TerminalClasses ==
    {"ErrAuthentication", "ErrNotFound", "ErrInvalidParams",
     "ErrMethodNotFound", "ErrInvalidRequest"}

RetryableClasses == {"ErrConnection", "ErrRPCTimeout"}

-----------------------------------------------------------------------------
(* The retried call: three implementations *)

\* client.go:1171 callRPC (its own retry loop, honours Config.RetryCount);
\* part_012:153 callRPCWithRetry (a fixed loop around part_012:68 callRPC);
\* client.go:118 callRPCWithRetry (one attempt)
RetryImpls == {"client.callRPC", "part012.callRPCWithRetry", "client.callRPCWithRetry"}

\* client.go:1201-1238: what one pass of the loop body of callRPC makes of
\* an answer (the HTTP status is never looked at)
callRPC_attempt(resp) ==
    CASE resp.kind \in {"neterr", "ctxerr"} -> Errorf_v("failed to make request", resp)
      [] resp.body = "garbage"   -> Errorf_v("failed to decode response", resp)
      [] resp.body = "rpcerror"  -> Errorf_v("RPC error", resp)
      [] resp.body = "badresult" -> Errorf_v("failed to unmarshal result", resp)
      [] OTHER -> NoErr

\* part_012:118-149: callRPC, one attempt (the HTTP status is never looked at)
part012_callRPC(resp) ==
    CASE resp.kind \in {"neterr", "ctxerr"} -> Errorf_v("failed to make request", resp)
      [] resp.body = "garbage"   -> Errorf_v("failed to decode response", resp)
      [] resp.body = "rpcerror"  -> Errorf_v("RPC error", resp)
      [] resp.body = "badresult" -> Errorf_v("failed to unmarshal result", resp)
      [] OTHER -> NoErr

\* client.go:168-195: callRPCWithRetry, its single attempt
client_callRPCWithRetry(resp) ==
    CASE resp.kind \in {"neterr", "ctxerr"} ->
             Errorf_w("failed to send request",
                      IF resp.kind = "ctxerr" THEN CtxCanceled
                      ELSE Errorf_v("dial tcp: connection refused", resp))
      [] resp.status # 200       -> Errorf_v("unexpected status code", resp)
      [] resp.body = "garbage"   -> Errorf_w("failed to decode response",
                                             Errorf_v("invalid character", resp))
      [] resp.body = "rpcerror"  -> Errorf_v("RPC error", resp)
      [] resp.body = "badresult" -> Errorf_w("failed to unmarshal result",
                                             Errorf_v("cannot unmarshal", resp))
      [] OTHER -> NoErr

\* the loop of part_012:155: for i := 0; i < 3; i++
part012_attempts == 3

\* the caller invokes the call
Call ==
    /\ rPc = "idle"
    /\ rPc' = "loop"
    /\ i' = 0
    /\ UNCHANGED <<rImpl, RetryCount, calls, sleeps, ctxCancelled, callsAfterCancel,
                   sleepsAfterCancel, firstResp, lastResp, allRetryable, ret>>
    /\ UNCHANGED notRetry

\* the loop condition holds and httpClient.Do(req) is invoked
\* (client.go:1199-1201, part_012:155-156 with :119, client.go:168)
Do ==
    /\ rPc = "loop"
    /\ CASE rImpl = "client.callRPC" -> i <= RetryCount
         [] rImpl = "part012.callRPCWithRetry" -> i < part012_attempts
         [] OTHER -> TRUE
    /\ rPc' = "inflight"
    /\ calls' = calls + 1
    /\ callsAfterCancel' = callsAfterCancel + (IF ctxCancelled THEN 1 ELSE 0)
    /\ UNCHANGED <<rImpl, RetryCount, i, sleeps, ctxCancelled, sleepsAfterCancel,
                   firstResp, lastResp, allRetryable, ret>>
    /\ UNCHANGED notRetry

\* the answers httpClient.Do can give: the context's error once the context
\* is cancelled, any answer of the remote end otherwise
Answers == IF ctxCancelled THEN {CtxErr} ELSE Responses

\* bookkeeping of an answer (history only)
Note(resp) ==
    /\ firstResp' = IF firstResp = NoResp THEN resp ELSE firstResp
    /\ lastResp' = resp
    /\ allRetryable' = (allRetryable /\ ClassOf(resp) \in RetryableClasses)

\* client.go:1201-1241: the rest of one pass of callRPC's loop
CallRPC_Respond ==
    /\ rImpl = "client.callRPC"
    /\ rPc = "inflight"
    /\ \E resp \in Answers :
         LET err == callRPC_attempt(resp) IN
         /\ Note(resp)
         /\ IF err = NoErr \/ err.text = "failed to unmarshal result"
              THEN \* return nil, or the unmarshal error, at once
                   /\ ret' = err
                   /\ rPc' = "done"
                   /\ UNCHANGED <<sleeps, sleepsAfterCancel>>
              ELSE IF i < RetryCount
              THEN \* time.Sleep(time.Duration(i+1) * time.Second); continue
                   /\ rPc' = "sleep"
                   /\ sleeps' = sleeps + 1
                   /\ sleepsAfterCancel' =
                          sleepsAfterCancel + (IF ctxCancelled THEN 1 ELSE 0)
                   /\ ret' = ret
              ELSE \* return lastErr
                   /\ ret' = err
                   /\ rPc' = "done"
                   /\ UNCHANGED <<sleeps, sleepsAfterCancel>>
    /\ UNCHANGED <<rImpl, RetryCount, i, calls, ctxCancelled, callsAfterCancel>>
    /\ UNCHANGED notRetry

\* client.go:1205, 1217, 1227: time.Sleep returns; the loop goes on (i++)
Wake ==
    /\ rPc = "sleep"
    /\ rPc' = "loop"
    /\ i' = i + 1
    /\ UNCHANGED <<rImpl, RetryCount, calls, sleeps, ctxCancelled, callsAfterCancel,
                   sleepsAfterCancel, firstResp, lastResp, allRetryable, ret>>
    /\ UNCHANGED notRetry

\* part_012:153-162: callRPCWithRetry after callRPC returned
WithRetry_Respond ==
    /\ rImpl = "part012.callRPCWithRetry"
    /\ rPc = "inflight"
    /\ \E resp \in Answers :
         LET err == part012_callRPC(resp) IN
         /\ Note(resp)
         /\ IF err = NoErr \/ i + 1 >= part012_attempts
              THEN \* break, or the loop ends: return err
                   /\ ret' = err
                   /\ rPc' = "done"
                   /\ i' = i
              ELSE \* the next pass, with no wait
                   /\ rPc' = "loop"
                   /\ i' = i + 1
                   /\ ret' = ret
    /\ UNCHANGED <<rImpl, RetryCount, calls, sleeps, ctxCancelled, callsAfterCancel,
                   sleepsAfterCancel>>
    /\ UNCHANGED notRetry

\* client.go:168-195: callRPCWithRetry returns whatever its one attempt gave
NoRetry_Respond ==
    /\ rImpl = "client.callRPCWithRetry"
    /\ rPc = "inflight"
    /\ \E resp \in Answers :
         /\ Note(resp)
         /\ ret' = client_callRPCWithRetry(resp)
         /\ rPc' = "done"
    /\ UNCHANGED <<rImpl, RetryCount, i, calls, sleeps, ctxCancelled,
                   callsAfterCancel, sleepsAfterCancel>>
    /\ UNCHANGED notRetry

\* the caller cancels the context while the call is in progress: during an
\* attempt or during the wait between two attempts
Cancel ==
    /\ rPc \in {"inflight", "sleep"}
    /\ ~ctxCancelled
    /\ ctxCancelled' = TRUE
    /\ UNCHANGED <<rImpl, RetryCount, rPc, i, calls, sleeps, callsAfterCancel,
                   sleepsAfterCancel, firstResp, lastResp, allRetryable, ret>>
    /\ UNCHANGED notRetry

RetryInit ==
    /\ rImpl \in RetryImpls
    /\ RetryCount \in 0..MaxRetryCount
    /\ rPc = "idle"
    /\ i = 0
    /\ calls = 0
    /\ sleeps = 0
    /\ ctxCancelled = FALSE
    /\ callsAfterCancel = 0
    /\ sleepsAfterCancel = 0
    /\ firstResp = NoResp
    /\ lastResp = NoResp
    /\ allRetryable = TRUE
    /\ ret = NoErr

\* the retried call is not under study: it never starts
RetryParked ==
    /\ rImpl = "client.callRPC"
    /\ RetryCount = 0
    /\ rPc = "parked"
    /\ i = 0
    /\ calls = 0
    /\ sleeps = 0
    /\ ctxCancelled = FALSE
    /\ callsAfterCancel = 0
    /\ sleepsAfterCancel = 0
    /\ firstResp = NoResp
    /\ lastResp = NoResp
    /\ allRetryable = TRUE
    /\ ret = NoErr

RetryNext ==
    \/ Call
    \/ Do
    \/ CallRPC_Respond
    \/ Wake
    \/ WithRetry_Respond
    \/ NoRetry_Respond
    \/ Cancel

-----------------------------------------------------------------------------
(* Token strings: strings.HasPrefix, strings.TrimRight, strings.Split *)

HasPrefix(str, prefix) ==
    /\ Len(str) >= Len(prefix)
    /\ SubSeq(str, 1, Len(prefix)) = prefix

RECURSIVE TrimRightSlash(_)
TrimRightSlash(str) ==
    IF str # <<>> /\ str[Len(str)] = "/"
    THEN TrimRightSlash(SubSeq(str, 1, Len(str) - 1))
    ELSE str

\* strings.Split(str, "/"): the segments between the "/" tokens
RECURSIVE SplitSlash(_)
SplitSlash(str) ==
    IF str = <<>> THEN << <<>> >>
    ELSE LET rest == SplitSlash(Tail(str)) IN
         IF Head(str) = "/"
         THEN << <<>> >> \o rest
         ELSE << <<Head(str)>> \o rest[1] >> \o Tail(rest)

-----------------------------------------------------------------------------
(* go-multiaddr, as the client uses it *)

\* the protocols of the multiaddress table that the endpoints explored use
\* (each takes one value segment)
Protocols == {"ip4", "ip6", "tcp", "udp", "dns4"}

ValidIP4 == {"1.2.3.4", "127.0.0.1"}
ValidIP6 == {"::1"}
ValidPort == {"1234", "80", "53"}

\* the transcoder of a protocol accepts the value segment
ValidValue(proto, val) ==
    /\ Len(val) = 1
    /\ CASE proto = "ip4" -> val[1] \in ValidIP4
         [] proto = "ip6" -> val[1] \in ValidIP6
         [] proto \in {"tcp", "udp"} -> val[1] \in ValidPort
         [] OTHER -> TRUE

NoMultiaddr == [ok |-> FALSE, comps |-> <<>>]

\* the components of the segments sp: protocol name, value, protocol name, ...
RECURSIVE ParseComponents(_)
ParseComponents(sp) ==
    IF sp = <<>> THEN [ok |-> TRUE, comps |-> <<>>]
    ELSE IF Len(sp[1]) # 1 \/ sp[1][1] \notin Protocols THEN NoMultiaddr
    ELSE IF Len(sp) < 2 THEN NoMultiaddr
    ELSE IF ~ValidValue(sp[1][1], sp[2]) THEN NoMultiaddr
    ELSE LET rest == ParseComponents(SubSeq(sp, 3, Len(sp))) IN
         IF ~rest.ok THEN NoMultiaddr
         ELSE [ok |-> TRUE,
               comps |-> << [proto |-> sp[1][1], value |-> sp[2]] >> \o rest.comps]

\* multiaddr.NewMultiaddr(str): trailing "/" trimmed, must begin with "/",
\* must not be empty, every protocol known and every value valid
NewMultiaddr(str) ==
    LET sp == SplitSlash(TrimRightSlash(str)) IN
    IF sp[1] # <<>> THEN NoMultiaddr
    ELSE IF Len(sp) = 1 THEN NoMultiaddr
    ELSE ParseComponents(Tail(sp))

\* maddr.ValueForProtocol(code): the value of the first component of that
\* protocol; <<>> stands for ErrProtocolNotFound
ValueForProtocol(comps, proto) ==
    IF \E k \in 1..Len(comps) : comps[k].proto = proto
    THEN comps[CHOOSE k \in 1..Len(comps) :
                 /\ comps[k].proto = proto
                 /\ \A j \in 1..(k - 1) : comps[j].proto # proto].value
    ELSE <<>>

\* client.go:130-139: multiaddr.ForEach assigning host or port at every
\* component: the last component of the protocols wins; <<>> is ""
ForEachLast(comps, protos) ==
    IF \E k \in 1..Len(comps) : comps[k].proto \in protos
    THEN comps[CHOOSE k \in 1..Len(comps) :
                 /\ comps[k].proto \in protos
                 /\ \A j \in (k + 1)..Len(comps) : comps[j].proto \notin protos].value
    ELSE <<>>

-----------------------------------------------------------------------------
(* The endpoint resolver: two implementations, and the HTTP request *)

\* SprintfURL with the path left out
SprintfURL_nopath(host, port) ==
    <<"http", ":", "/", "/">> \o host \o <<":">> \o port

\* fmt.Sprintf("http://%s:%s/rpc/v0", host, port)
SprintfURL(host, port) ==
    <<"http", ":", "/", "/">> \o host \o <<":">> \o port \o <<"/", "rpc", "/", "v0">>

\* http.NewRequestWithContext and httpClient.Do put a request on the wire
\* only for an absolute http or https URL that names a host
Sendable(url) ==
    /\ \/ HasPrefix(url, <<"http", ":", "/", "/">>)
       \/ HasPrefix(url, <<"https", ":", "/", "/">>)
    /\ Len(url) >= 5
    /\ url[5] \notin {"/", ":"}

\* the outcome of resolving and sending: the URL requested and the error
Sent(url) == [url |-> url, err |-> ""]
Failed(text) == [url |-> <<>>, err |-> text]

\* client.go:119-175: callRPCWithRetry up to httpClient.Do
client_resolve(url) ==
    IF url = <<>> THEN Failed("LOTUS_API_URL is not set")
    ELSE LET maddr == NewMultiaddr(url) IN
         IF ~maddr.ok THEN Failed("invalid multiaddr")
         ELSE LET host == ForEachLast(maddr.comps, {"ip4", "ip6"})
                  port == ForEachLast(maddr.comps, {"tcp"}) IN
              IF host = <<>> \/ port = <<>>
              THEN Failed("invalid multiaddr: missing host or port")
              ELSE IF Sendable(SprintfURL(host, port))
              THEN Sent(SprintfURL(host, port))
              ELSE Failed("failed to send request")

\* part_012:69-122: callRPC up to httpClient.Do
part012_resolve(url) ==
    IF HasPrefix(url, <<"/", "ip4", "/">>) \/ HasPrefix(url, <<"/", "ip6", "/">>)
    THEN LET maddr == NewMultiaddr(url) IN
         IF ~maddr.ok THEN Failed("failed to parse multiaddr")
         ELSE LET ip4 == ValueForProtocol(maddr.comps, "ip4")
                  ip == IF ip4 # <<>> THEN ip4
                        ELSE ValueForProtocol(maddr.comps, "ip6")
                  port == ValueForProtocol(maddr.comps, "tcp") IN
              IF ip = <<>> THEN Failed("failed to get IP from multiaddr")
              ELSE IF port = <<>> THEN Failed("failed to get port from multiaddr")
              ELSE IF Sendable(SprintfURL(ip, port))
              THEN Sent(SprintfURL(ip, port))
              ELSE Failed("failed to make request")
    ELSE IF Sendable(url) THEN Sent(url)
    ELSE Failed("failed to make request")

\* the components the multiaddresses explored are made of
Components ==
    { <<"ip4", "1.2.3.4">>, <<"ip4", "127.0.0.1">>, <<"ip4", "999.1.1.1">>,
      <<"ip6", "::1">>, <<"tcp", "1234">>, <<"tcp", "80">>, <<"tcp", "99999">>,
      <<"udp", "53">>, <<"dns4", "node.example">> }

\* "/proto/value/proto/value..." of a sequence of components
RECURSIVE MultiaddrString(_)
MultiaddrString(cs) ==
    IF cs = <<>> THEN <<>>
    ELSE <<"/", cs[1][1], "/", cs[1][2]>> \o MultiaddrString(Tail(cs))

PlainURLs ==
    { <<"http", ":", "/", "/", "127.0.0.1", ":", "1234", "/", "rpc", "/", "v0">>,
      <<"http", ":", "/", "/", "1.2.3.4", ":", "1234", "/", "rpc", "/", "v1">>,
      <<"https", ":", "/", "/", "node.example", "/", "rpc", "/", "v0">> }

\* the endpoints explored: multiaddresses, plain URLs, the unset endpoint
\* and strings that are neither
Endpoints ==
    { MultiaddrString(cs) :
        cs \in UNION { [1..n -> Components] : n \in 1..MaxComponents } }
    \cup PlainURLs
    \cup { <<>>, <<"/", "ip4">>, <<"/", "ip4", "/", "1.2.3.4", "/", "tcp", "/", "1234", "/">>,
           <<"/", "foo", "/", "bar">>, <<"node.example", ":", "1234">> }

ResolveImpls == {"client.callRPCWithRetry", "part012.callRPC"}

\* client.go:32-49 and part_012:30-45: New keeps the endpoint it is given
\* (part_012 replaces the unset endpoint by the loopback default)
New ==
    /\ vPc = "new"
    /\ ctor = "New"
    /\ apiURL' = IF vImpl = "part012.callRPC" /\ apiURL = <<>>
                 THEN <<"http", ":", "/", "/", "127.0.0.1", ":", "1234", "/", "rpc", "/", "v0">>
                 ELSE apiURL
    /\ vPc' = "built"
    /\ UNCHANGED <<vImpl, ctor, httpURL, vErr>>
    /\ UNCHANGED notResolve

\* client.go:91-107: NewFromEnv rejects an endpoint that is not a multiaddress
\* (part_012:48-58: NewFromEnv is New on the environment's endpoint)
NewFromEnv ==
    /\ vPc = "new"
    /\ ctor = "NewFromEnv"
    /\ IF vImpl = "client.callRPCWithRetry"
       THEN IF apiURL = <<>>
            THEN /\ vPc' = "done"
                 /\ vErr' = "LOTUS_API_URL and LOTUS_API_TOKEN must be set in .thctl.env"
                 /\ apiURL' = apiURL
            ELSE IF ~HasPrefix(apiURL, <<"/", "ip4", "/">>)
                    /\ ~HasPrefix(apiURL, <<"/", "ip6", "/">>)
            THEN /\ vPc' = "done"
                 /\ vErr' = "LOTUS_API_URL must be in multiaddr format"
                 /\ apiURL' = apiURL
            ELSE /\ vPc' = "built"
                 /\ UNCHANGED <<vErr, apiURL>>
       ELSE /\ vPc' = "built"
            /\ vErr' = vErr
            /\ apiURL' = IF apiURL = <<>>
                         THEN <<"http", ":", "/", "/", "127.0.0.1", ":", "1234",
                                "/", "rpc", "/", "v0">>
                         ELSE apiURL
    /\ UNCHANGED <<vImpl, ctor, httpURL>>
    /\ UNCHANGED notResolve

\* client.go:118-175: a call of the client of client.go
Client_Call ==
    /\ vPc = "built"
    /\ vImpl = "client.callRPCWithRetry"
    /\ httpURL' = client_resolve(apiURL).url
    /\ vErr' = client_resolve(apiURL).err
    /\ vPc' = "done"
    /\ UNCHANGED <<vImpl, ctor, apiURL>>
    /\ UNCHANGED notResolve

\* part_012:68-122: a call of the client of part_012
Part012_Call ==
    /\ vPc = "built"
    /\ vImpl = "part012.callRPC"
    /\ httpURL' = part012_resolve(apiURL).url
    /\ vErr' = part012_resolve(apiURL).err
    /\ vPc' = "done"
    /\ UNCHANGED <<vImpl, ctor, apiURL>>
    /\ UNCHANGED notResolve

ResolveInit ==
    /\ vImpl \in ResolveImpls
    /\ ctor \in {"New", "NewFromEnv"}
    /\ apiURL \in Endpoints
    /\ vPc = "new"
    /\ httpURL = <<>>
    /\ vErr = ""

ResolveParked ==
    /\ vImpl = "part012.callRPC"
    /\ ctor = "New"
    /\ apiURL = <<>>
    /\ vPc = "parked"
    /\ httpURL = <<>>
    /\ vErr = ""

ResolveNext ==
    \/ New
    \/ NewFromEnv
    \/ Client_Call
    \/ Part012_Call

-----------------------------------------------------------------------------
(* asyncRetry's classification of an error: client.go isRetryableError *)

\* err.Error(): the message as a sequence of fragments, outermost first. %w
\* and %v both format the cause after the text; "unexpected status code: %d"
\* ends with the status in decimal
RECURSIVE ErrorString(_)
ErrorString(err) ==
    <<err.text>> \o
        (IF err.wraps # <<>> THEN ErrorString(err.wraps[1])
         ELSE IF err.text = "unexpected status code" THEN <<ToString(err.resp.status)>>
         ELSE <<>>)

\* strings.ToLower on a fragment
ToLower(frag) ==
    CASE frag = "RPC error" -> "rpc error"
      [] frag = "EOF"       -> "eof"
      [] OTHER              -> frag

\* the entries of the retryableErrors list that occur inside a fragment
SubstringsOf(frag) ==
    CASE frag = "dial tcp: connection refused" -> {"connection refused"}
      [] frag = "i/o timeout" -> {"timeout", "i/o timeout"}
      [] frag \in {"500", "503", "504"} -> {frag}
      [] OTHER -> {}

retryableErrors ==
    {"connection reset", "connection refused", "timeout", "i/o timeout", "EOF",
     "network is unreachable", "500", "503", "504"}

isRetryableError(err) ==
    /\ err # NoErr
    /\ \E k \in 1..Len(ErrorString(err)) :
          SubstringsOf(ToLower(ErrorString(err)[k])) \cap retryableErrors # {}

-----------------------------------------------------------------------------
(* The aggregate's fanned-out tasks: client.go GetComprehensiveMinerInfo *)

\* the task list, in the order of the source
Tasks ==
    <<"robust_address", "actor_state", "power_info", "sector_info", "faults",
      "financial_info", "power_rank", "chain_head">>

TaskIds == 1..NumTasks

\* the answers the remote end gives to the calls of the aggregate
AggAnswers ==
    {NetErr, Http(500, "garbage", 0), Http(404, "garbage", 0), Http(200, "result", 0)}

Ok(resp) == client_callRPCWithRetry(resp) = NoErr

\* fmt.Errorf(text + ": %w", err) applied to a non-nil error only
WrapIfErr(text, err) == IF err = NoErr THEN NoErr ELSE Errorf_w(text, err)

\* One run of a task's fn: the error it returns and the fields of the record
\* it writes, given the answers r1, r2 to its (at most two) calls.
\*  - sector_info returns the err of the enclosing function, nil by then;
\*  - financial_info returns the error of its second call only;
\*  - power_rank fails when either of its first two calls fails.
fn(name, r1, r2) ==
    LET e1 == client_callRPCWithRetry(r1)
        e2 == client_callRPCWithRetry(r2)
        one(text, fields) ==
            [err |-> IF text = "" THEN e1 ELSE WrapIfErr(text, e1),
             fields |-> IF e1 = NoErr THEN fields ELSE {}]
    IN CASE name = "robust_address" -> one("failed to get robust address", {"Robust"})
         [] name = "actor_state"    -> one("failed to get actor state", {"CreateHeight"})
         [] name = "power_info"     -> one("", {"RawBytePower"})
         [] name = "sector_info"    ->
                [err |-> NoErr,
                 fields |-> IF e1 = NoErr THEN {"Live", "Active"} ELSE {}]
         [] name = "faults"         -> one("", {"Faulty"})
         [] name = "financial_info" ->
                [err |-> WrapIfErr("failed to get miner pledge collateral", e2),
                 fields |-> (IF e1 = NoErr THEN {"AvailableBalance"} ELSE {})
                            \cup (IF e2 = NoErr THEN {"PledgeBalance"} ELSE {})]
         [] name = "power_rank"     ->
                [err |-> IF e1 # NoErr THEN Errorf_w("failed to get miner power", e1)
                         ELSE WrapIfErr("failed to list miners", e2),
                 fields |-> IF e1 = NoErr /\ e2 = NoErr THEN {"Rank"} ELSE {}]
         [] OTHER                   -> one("failed to get chain head", {"LastSeenHeight"})

\* how many calls a task's fn makes
CallsOf(name) == IF name \in {"financial_info", "power_rank"} THEN 2 ELSE 1

\* client.go:565
maxConcurrency == 5

\* client.go:681
retries == 3

\* groups of variables, for the frames below
aArgs == <<aImpl, op, minerID>>
aRet == <<retInfo, retErr>>
aTime == <<timer, unfinishedAtDeadline>>
aSync == <<sem, semClosed, wg, doneClosed>>
aTasks == <<task, attempt, failures>>
aGroup == <<gStep, gErr>>

\* a send on the closed semaphore channel has panicked: the process is gone
Crashed == \E t \in TaskIds : task[t] = "panic"

\* what httpClient.Do can answer under the caller's context
AnswersUnder(cancelled) == IF cancelled THEN {CtxErr} ELSE AggAnswers

\* client.go:199-208 ListSectors: no check of minerID, one call
ListSectors ==
    /\ aImpl = "client"
    /\ op = "ListSectors"
    /\ aPc = "start"
    /\ \E r \in AnswersUnder(aCtx) :
          /\ retErr' = client_callRPCWithRetry(r)
          /\ retInfo' = IF Ok(r) THEN "result" ELSE "nil"
    /\ rpcIssued' = TRUE
    /\ aPc' = "returned"
    /\ UNCHANGED <<aArgs, info, aCtx, aTime, aSync, aTasks>>
    /\ UNCHANGED aGroup
    /\ UNCHANGED notAgg

\* client.go:527-543: the check of minerID and the fresh record
A_Validate ==
    /\ aImpl = "client"
    /\ op = "GetComprehensiveMinerInfo"
    /\ aPc = "start"
    /\ IF minerID = ""
       THEN /\ retInfo' = "nil"
            /\ retErr' = Errorf_v("miner ID cannot be empty", NoResp)
            /\ aPc' = "returned"
       ELSE /\ aPc' = "basic"
            /\ UNCHANGED aRet
    /\ UNCHANGED <<aArgs, info, rpcIssued, aCtx, aTime, aSync, aTasks>>
    /\ UNCHANGED aGroup
    /\ UNCHANGED notAgg

\* client.go:546-553: GetMinerInfo (client.go:247-295, whose supplementary
\* calls cannot fail it) and processBasicInfo (client.go:745-794); keys are
\* the keys of the StateMinerInfo result, balances the WalletBalance calls
\* that succeed
A_BasicInfo ==
    /\ aImpl = "client"
    /\ aPc = "basic"
    /\ rpcIssued' = TRUE
    /\ \E r \in AnswersUnder(aCtx), keys \in SUBSET {"Owner", "Worker"},
          balances \in SUBSET {"OwnerBalance", "WorkerBalance"} :
          LET e == client_callRPCWithRetry(r)
              failed == 2 - Cardinality(balances)
              fail(err) == /\ retInfo' = "nil"
                           /\ retErr' = err
                           /\ aPc' = "returned"
                           /\ UNCHANGED <<info, failures>>
          IN CASE e # NoErr ->
                      fail(Errorf_w("failed to get basic info",
                                    Errorf_w("failed to get miner info", e)))
               [] e = NoErr /\ "Owner" \notin keys ->
                      fail(Errorf_v("owner address not found", NoResp))
               [] e = NoErr /\ "Owner" \in keys /\ "Worker" \notin keys ->
                      fail(Errorf_v("worker address not found", NoResp))
               [] OTHER ->
                      /\ failed <= MaxFailures
                      /\ failures' = failed
                      /\ info' = keys \cup balances
                      /\ aPc' = "actor"
                      /\ UNCHANGED aRet
    /\ UNCHANGED <<aArgs, aCtx, aTime, aSync, task, attempt>>
    /\ UNCHANGED aGroup
    /\ UNCHANGED notAgg

\* client.go:555-562: GetActorInfo (client.go:983-990) and processActorInfo
\* (client.go:797-805, which always returns nil)
A_ActorInfo ==
    /\ aImpl = "client"
    /\ aPc = "actor"
    /\ \E r \in AnswersUnder(aCtx) :
          LET e == client_callRPCWithRetry(r)
          IN IF e # NoErr
             THEN /\ retInfo' = "nil"
                  /\ retErr' = Errorf_w("failed to get actor info",
                                        Errorf_w("failed to get actor info", e))
                  /\ aPc' = "returned"
                  /\ UNCHANGED info
             ELSE /\ info' = info \cup {"Balance"}
                  /\ aPc' = "fanout"
                  /\ UNCHANGED aRet
    /\ UNCHANGED <<aArgs, rpcIssued, aCtx, aTime, aSync, aTasks>>
    /\ UNCHANGED aGroup
    /\ UNCHANGED notAgg

\* client.go:564-666: the semaphore, one worker goroutine per task with
\* wg.Add(1), the goroutine that waits for the group, and the timer of the
\* select
A_FanOut ==
    /\ aImpl = "client"
    /\ aPc = "fanout"
    /\ sem' = 0
    /\ semClosed' = FALSE
    /\ wg' = NumTasks
    /\ doneClosed' = FALSE
    /\ task' = [t \in TaskIds |-> "spawned"]
    /\ timer' = "armed"
    /\ aPc' = "select"
    /\ UNCHANGED <<aArgs, info, aRet, rpcIssued, aCtx, unfinishedAtDeadline,
                   attempt, failures>>
    /\ UNCHANGED aGroup
    /\ UNCHANGED notAgg

\* client.go:645-652: a worker goroutine sends on the semaphore; the send
\* blocks while the buffer is full and panics once the channel is closed,
\* which ends the process and every goroutine with it
W_Acquire(t) ==
    /\ ~Crashed
    /\ task[t] = "spawned"
    /\ IF semClosed
       THEN /\ task' = [u \in TaskIds |-> IF u = t THEN "panic" ELSE "killed"]
            /\ UNCHANGED sem
       ELSE /\ sem < maxConcurrency
            /\ sem' = sem + 1
            /\ task' = [task EXCEPT ![t] = "acquired"]
    /\ UNCHANGED <<aArgs, aPc, info, aRet, rpcIssued, aCtx, aTime, semClosed, wg,
                   doneClosed, attempt, failures>>
    /\ UNCHANGED aGroup
    /\ UNCHANGED notAgg

\* client.go:649-656 and 679-692: the worker calls asyncRetry, which starts a
\* goroutine of its own and returns; the worker's deferred calls then give
\* the slot back and call wg.Done. The new goroutine enters its loop: it
\* returns when the context is done, else it starts fn
W_AsyncRetry(t) ==
    /\ ~Crashed
    /\ task[t] = "acquired"
    /\ task' = [task EXCEPT ![t] = IF aCtx THEN "end" ELSE "call"]
    /\ sem' = sem - 1
    /\ wg' = wg - 1
    /\ UNCHANGED <<aArgs, aPc, info, aRet, rpcIssued, aCtx, aTime, semClosed,
                   doneClosed, attempt, failures>>
    /\ UNCHANGED aGroup
    /\ UNCHANGED notAgg

\* client.go:661-664: wg.Wait returns, close(done)
WaitDone ==
    /\ ~Crashed
    /\ timer # "off"
    /\ wg = 0
    /\ ~doneClosed
    /\ doneClosed' = TRUE
    /\ UNCHANGED <<aArgs, aPc, info, aRet, rpcIssued, aCtx, aTime, sem, semClosed, wg,
                   aTasks>>
    /\ UNCHANGED aGroup
    /\ UNCHANGED notAgg

\* client.go:692-710: fn returns; it has written the fields it obtained into
\* the shared record; a nil or non-retryable error ends the goroutine, a
\* retryable one sleeps unless this was the last pass
R_Result(t) ==
    /\ ~Crashed
    /\ task[t] = "call"
    /\ \E r1 \in AnswersUnder(aCtx), r2 \in AnswersUnder(aCtx) :
          LET name == Tasks[t]
              res == fn(name, r1, r2)
              failed == (IF Ok(r1) THEN 0 ELSE 1)
                        + (IF CallsOf(name) = 2 /\ ~Ok(r2) THEN 1 ELSE 0)
          IN /\ CallsOf(name) = 1 => r2 = r1
             /\ ~aCtx => failures + failed <= MaxFailures
             /\ failures' = IF aCtx THEN failures ELSE failures + failed
             /\ info' = info \cup res.fields
             /\ task' = [task EXCEPT ![t] =
                            IF res.err = NoErr \/ ~isRetryableError(res.err)
                            THEN "end"
                            ELSE IF attempt[t] < retries - 1 THEN "sleep" ELSE "end"]
    /\ UNCHANGED <<aArgs, aPc, aRet, rpcIssued, aCtx, aTime, aSync, attempt>>
    /\ UNCHANGED aGroup
    /\ UNCHANGED notAgg

\* client.go:706-707, 684-692: time.Sleep(backoff) returns, i++, the next
\* pass checks the context and calls fn again
R_Wake(t) ==
    /\ ~Crashed
    /\ task[t] = "sleep"
    /\ attempt' = [attempt EXCEPT ![t] = attempt[t] + 1]
    /\ task' = [task EXCEPT ![t] = IF aCtx THEN "end" ELSE "call"]
    /\ UNCHANGED <<aArgs, aPc, info, aRet, rpcIssued, aCtx, aTime, aSync, failures>>
    /\ UNCHANGED aGroup
    /\ UNCHANGED notAgg

\* the 30 seconds of time.After elapse
TimerFire ==
    /\ ~Crashed
    /\ timer = "armed"
    /\ timer' = "fired"
    /\ unfinishedAtDeadline' = (\E t \in TaskIds : task[t] # "end")
    /\ UNCHANGED <<aArgs, aPc, info, aRet, rpcIssued, aCtx, aSync, aTasks>>
    /\ UNCHANGED aGroup
    /\ UNCHANGED notAgg

\* the caller cancels the context while the method runs
A_Cancel ==
    /\ ~Crashed
    /\ aPc \in {"start", "basic", "actor", "fanout", "select", "wait"}
    /\ ~aCtx
    /\ aCtx' = TRUE
    /\ UNCHANGED <<aArgs, aPc, info, aRet, rpcIssued, aTime, aSync, aTasks>>
    /\ UNCHANGED aGroup
    /\ UNCHANGED notAgg

\* client.go:666-669 and 567: the select receives from done; the deferred
\* close(semaphore) runs
A_ReturnDone ==
    /\ ~Crashed
    /\ aPc = "select"
    /\ doneClosed
    /\ retInfo' = "info"
    /\ retErr' = NoErr
    /\ aPc' = "returned"
    /\ semClosed' = TRUE
    /\ UNCHANGED <<aArgs, info, rpcIssued, aCtx, aTime, sem, wg, doneClosed, aTasks>>
    /\ UNCHANGED aGroup
    /\ UNCHANGED notAgg

\* client.go:670-672 and 567: the select receives from the timer
A_ReturnTimeout ==
    /\ ~Crashed
    /\ aPc = "select"
    /\ timer = "fired"
    /\ retInfo' = "info"
    /\ retErr' = Errorf_v("miner info retrieval timed out after 30 seconds", NoResp)
    /\ aPc' = "returned"
    /\ semClosed' = TRUE
    /\ UNCHANGED <<aArgs, info, rpcIssued, aCtx, aTime, sem, wg, doneClosed, aTasks>>
    /\ UNCHANGED aGroup
    /\ UNCHANGED notAgg

\* client.go:673-674 and 567: the select receives from ctx.Done()
A_ReturnCancelled ==
    /\ ~Crashed
    /\ aPc = "select"
    /\ aCtx
    /\ retInfo' = "nil"
    /\ retErr' = CtxCanceled
    /\ aPc' = "returned"
    /\ semClosed' = TRUE
    /\ UNCHANGED <<aArgs, info, rpcIssued, aCtx, aTime, sem, wg, doneClosed, aTasks>>
    /\ UNCHANGED aGroup
    /\ UNCHANGED notAgg

-----------------------------------------------------------------------------
(* Domain Client methods of client.go that are called on their own *)

\* client.go:257-292: the keys GetMinerInfo adds to the StateMinerInfo result,
\* one per supplementary call, each only when that call succeeds
Supplementary ==
    {"SectorsInfo", "DeadlineInfo", "AvailableBalance", "VestingFunds", "Faults",
     "Recoveries"}

\* client.go:247-295 GetMinerInfo: the check of minerID, the StateMinerInfo
\* call whose error is wrapped with %w and returned, and the six
\* supplementary calls whose errors are dropped; got are the supplementary
\* calls that succeed. failures counts the transport calls that failed.
GetMinerInfo ==
    /\ aImpl = "client"
    /\ op = "GetMinerInfo"
    /\ aPc = "start"
    /\ aPc' = "returned"
    /\ IF minerID = ""
       THEN /\ retInfo' = "nil"
            /\ retErr' = Errorf_v("miner ID cannot be empty", NoResp)
            /\ UNCHANGED <<info, rpcIssued, failures>>
       ELSE /\ rpcIssued' = TRUE
            /\ \E r \in AnswersUnder(aCtx), got \in SUBSET Supplementary :
                  LET e == client_callRPCWithRetry(r)
                      missed == Cardinality(Supplementary \ got)
                  IN IF e # NoErr
                     THEN /\ retInfo' = "nil"
                          /\ retErr' = Errorf_w("failed to get miner info", e)
                          /\ failures' = 1
                          /\ UNCHANGED info
                     ELSE /\ missed <= MaxFailures
                          /\ retInfo' = "result"
                          /\ retErr' = NoErr
                          /\ failures' = missed
                          /\ info' = {"Owner", "Worker"} \cup got
    /\ UNCHANGED <<aArgs, aCtx, aTime, aSync, task, attempt, aGroup>>
    /\ UNCHANGED notAgg

\* client.go:382-390 GetMinerInitialPledgeCollateral: one call, whose error
\* is formatted with %v into a new error
GetMinerInitialPledgeCollateral ==
    /\ aImpl = "client"
    /\ op = "GetMinerInitialPledgeCollateral"
    /\ aPc = "start"
    /\ aPc' = "returned"
    /\ rpcIssued' = TRUE
    /\ \E r \in AnswersUnder(aCtx) :
          LET e == client_callRPCWithRetry(r)
          IN /\ retInfo' = IF e = NoErr THEN "result" ELSE "nil"
             /\ retErr' = IF e = NoErr THEN NoErr
                          ELSE Errorf_v("failed to get initial pledge", r)
             /\ failures' = IF e = NoErr THEN 0 ELSE 1
    /\ UNCHANGED <<aArgs, info, aCtx, aTime, aSync, task, attempt, aGroup>>
    /\ UNCHANGED notAgg

\* the methods a caller invokes
Ops ==
    {"GetComprehensiveMinerInfo", "ListSectors", "GetMinerInfo",
     "GetMinerInitialPledgeCollateral"}

-----------------------------------------------------------------------------
(* The aggregate of part_012: an errgroup *)

\* part_012:433-601: the goroutines of the group, in the order of the source;
\* each makes its calls in turn, wraps the error of the one that fails with
\* text and returns it, and writes field after a call that succeeds. The
\* calls that go through GetMinerInfo (part_012:213-224) carry its own wrap.
GroupCall(text, inner, field) == [text |-> text, inner |-> inner, field |-> field]

Groups ==
    << <<GroupCall("failed to get basic info", "failed to get miner info", "BasicInfo")>>,
       <<GroupCall("failed to get power info", "", "Power")>>,
       <<GroupCall("failed to get available balance", "", "AvailableBalance"),
         GroupCall("failed to get initial pledge", "", "InitialPledge"),
         GroupCall("failed to get pre-commit deposits", "", "PreCommitDeposits"),
         GroupCall("failed to get vesting funds", "", "VestingFunds")>>,
       <<GroupCall("failed to get faults", "", "FaultySectors"),
         GroupCall("failed to get recovering sectors", "", "RecoveringSectors"),
         GroupCall("failed to get live sectors", "", "LiveSectors")>>,
       <<GroupCall("failed to get deadlines", "", "Deadlines"),
         GroupCall("failed to get proving deadline", "", "ProvingDeadline")>>,
       <<GroupCall("failed to get worker address", "failed to get miner info", "WorkerAddress"),
         GroupCall("failed to get owner address", "failed to get miner info", "OwnerAddress"),
         GroupCall("failed to get beneficiary address", "failed to get miner info",
              "Beneficiary")>> >>

\* the context the group derives: done when the caller's is, or once a
\* goroutine has returned an error
GroupCtxDone == aCtx \/ gErr # NoErr

\* part_012:426-431 and 433-601: the check of minerID, the record, the
\* errgroup and its goroutines
B_Start ==
    /\ aImpl = "part012"
    /\ op = "GetComprehensiveMinerInfo"
    /\ aPc = "start"
    /\ IF minerID = ""
       THEN /\ retInfo' = "nil"
            /\ retErr' = Errorf_v("miner ID cannot be empty", NoResp)
            /\ aPc' = "returned"
            /\ UNCHANGED task
       ELSE /\ task' = [t \in TaskIds |-> "go"]
            /\ aPc' = "wait"
            /\ UNCHANGED aRet
    /\ UNCHANGED <<aArgs, info, rpcIssued, aCtx, aTime, aSync, attempt, failures, aGroup>>
    /\ UNCHANGED notAgg

\* one call of a goroutine of the group, through callRPCWithRetry
\* (part_012:153-162); r is the answer to its last attempt
G_Call(t) ==
    /\ aImpl = "part012"
    /\ task[t] = "go"
    /\ rpcIssued' = TRUE
    /\ \E r \in AnswersUnder(GroupCtxDone) :
          LET call == Groups[t][gStep[t] + 1]
              e == part012_callRPC(r)
              wrapped == Errorf_w(call.text,
                                  IF call.inner = "" THEN e ELSE Errorf_w(call.inner, e))
          IN IF e # NoErr
             THEN /\ ~GroupCtxDone => failures < MaxFailures
                  /\ failures' = IF GroupCtxDone THEN failures ELSE failures + 1
                  /\ gErr' = IF gErr = NoErr THEN wrapped ELSE gErr
                  /\ task' = [task EXCEPT ![t] = "failed"]
                  /\ UNCHANGED <<info, gStep>>
             ELSE /\ info' = info \cup {call.field}
                  /\ gStep' = [gStep EXCEPT ![t] = gStep[t] + 1]
                  /\ task' = [task EXCEPT ![t] =
                                 IF gStep[t] + 1 = Len(Groups[t]) THEN "done" ELSE "go"]
                  /\ UNCHANGED <<failures, gErr>>
    /\ UNCHANGED <<aArgs, aPc, aRet, aCtx, aTime, aSync, attempt>>
    /\ UNCHANGED notAgg

\* part_012:603-607: g.Wait returns once every goroutine has; the record is
\* returned with or without an error
B_Wait ==
    /\ aImpl = "part012"
    /\ aPc = "wait"
    /\ \A t \in TaskIds : task[t] \in {"done", "failed"}
    /\ retInfo' = "info"
    /\ retErr' = WrapIfErr("failed to get comprehensive miner info", gErr)
    /\ aPc' = "returned"
    /\ UNCHANGED <<aArgs, info, rpcIssued, aCtx, aTime, aSync, aTasks, aGroup>>
    /\ UNCHANGED notAgg

\* client.go:527 and part_012:426
AggImpls == {"client", "part012"}

AggInit ==
    /\ aImpl \in AggImpls
    /\ op \in Ops
    /\ minerID \in {"", "f01234"}
    /\ aPc = "start"
    /\ info = {}
    /\ retInfo = "nil"
    /\ retErr = NoErr
    /\ rpcIssued = FALSE
    /\ aCtx = FALSE
    /\ timer = "off"
    /\ unfinishedAtDeadline = FALSE
    /\ sem = 0
    /\ semClosed = FALSE
    /\ wg = 0
    /\ doneClosed = FALSE
    /\ task = [t \in TaskIds |-> "none"]
    /\ attempt = [t \in TaskIds |-> 0]
    /\ failures = 0
    /\ gStep = [t \in TaskIds |-> 0]
    /\ gErr = NoErr

\* the aggregate when another machine is explored
AggParked ==
    /\ aImpl = "client"
    /\ op = "ListSectors"
    /\ minerID = ""
    /\ aPc = "parked"
    /\ info = {}
    /\ retInfo = "nil"
    /\ retErr = NoErr
    /\ rpcIssued = FALSE
    /\ aCtx = FALSE
    /\ timer = "off"
    /\ unfinishedAtDeadline = FALSE
    /\ sem = 0
    /\ semClosed = FALSE
    /\ wg = 0
    /\ doneClosed = FALSE
    /\ task = [t \in TaskIds |-> "none"]
    /\ attempt = [t \in TaskIds |-> 0]
    /\ failures = 0
    /\ gStep = [t \in TaskIds |-> 0]
    /\ gErr = NoErr

AggNext ==
    \/ ListSectors
    \/ GetMinerInfo
    \/ GetMinerInitialPledgeCollateral
    \/ A_Validate
    \/ A_BasicInfo
    \/ A_ActorInfo
    \/ A_FanOut
    \/ \E t \in TaskIds : W_Acquire(t)
    \/ \E t \in TaskIds : W_AsyncRetry(t)
    \/ WaitDone
    \/ \E t \in TaskIds : R_Result(t)
    \/ \E t \in TaskIds : R_Wake(t)
    \/ TimerFire
    \/ A_Cancel
    \/ A_ReturnDone
    \/ A_ReturnTimeout
    \/ A_ReturnCancelled
    \/ B_Start
    \/ \E t \in TaskIds : G_Call(t)
    \/ B_Wait

-----------------------------------------------------------------------------
(* math/big as the formatters use it *)

\* A string is a sequence of one-character strings. A natural number is the
\* sequence of its decimal digits, most significant first, without leading
\* zeros (<<>> is zero).
DigitChars == {"0", "1", "2", "3", "4", "5", "6", "7", "8", "9"}

DigitVal(c) ==
    CASE c = "0" -> 0 [] c = "1" -> 1 [] c = "2" -> 2 [] c = "3" -> 3 [] c = "4" -> 4
      [] c = "5" -> 5 [] c = "6" -> 6 [] c = "7" -> 7 [] c = "8" -> 8 [] OTHER -> 9

\* the longest prefix of str made of decimal digits
RECURSIVE DigitPrefix(_)
DigitPrefix(str) ==
    IF str # <<>> /\ Head(str) \in DigitChars
    THEN <<DigitVal(Head(str))>> \o DigitPrefix(Tail(str))
    ELSE <<>>

RECURSIVE StripZeros(_)
StripZeros(ds) ==
    IF ds # <<>> /\ Head(ds) = 0 THEN StripZeros(Tail(ds)) ELSE ds

\* new(big.Int).SetString(str, 10): an optional sign, then decimal digits to
\* the end of the string. ok tells whether it succeeded; neg and abs are the
\* value the receiver holds afterwards. When it fails the receiver holds
\* what was scanned before the failure (the digits before the offending
\* character; nothing for the empty string), a value the documentation of
\* math/big leaves undefined.
SetString(str) ==
    LET signed == str # <<>> /\ Head(str) \in {"+", "-"}
        rest   == IF signed THEN Tail(str) ELSE str
        ds     == DigitPrefix(rest)
        abs    == StripZeros(ds)
    IN [ok  |-> ds # <<>> /\ Len(ds) = Len(rest),
        neg |-> signed /\ Head(str) = "-" /\ abs # <<>>,
        abs |-> abs]

\* the value of a digit sequence that is small enough for machine integers
RECURSIVE Int64(_)
Int64(ds) == IF ds = <<>> THEN 0 ELSE 10 * Int64(SubSeq(ds, 1, Len(ds) - 1)) + ds[Len(ds)]

\* ds divided by the small positive d, long division: quotient digits (with
\* leading zeros) and remainder
RECURSIVE DivSmall(_, _, _)
DivSmall(ds, d, carry) ==
    IF ds = <<>> THEN [quo |-> <<>>, rem |-> carry]
    ELSE LET cur == 10 * carry + Head(ds)
             r   == DivSmall(Tail(ds), d, cur % d)
         IN [quo |-> <<cur \div d>> \o r.quo, rem |-> r.rem]

\* a natural number as a decimal string fragment
RECURSIVE DecString(_)
DecString(ds) ==
    IF ds = <<>> THEN "0"
    ELSE IF Len(ds) = 1 THEN ToString(ds[1])
    ELSE DecString(SubSeq(ds, 1, Len(ds) - 1)) \o ToString(ds[Len(ds)])

-----------------------------------------------------------------------------
(* The display formatters: formatBytes, formatAttoFil, formatFIL *)

\* client.go:920, miner.go:180
units == <<"B", "KiB", "MiB", "GiB", "TiB", "PiB", "EiB">>

\* Sprintf's sign and integer digits of a number whose magnitude is whole
Signed(neg, ds) == IF neg THEN "-" \o DecString(ds) ELSE DecString(ds)

\* a number below 10^n printed on exactly n digits
RECURSIVE Padded(_, _)
Padded(c, n) == IF n = 0 THEN "" ELSE Padded(c \div 10, n - 1) \o ToString(c % 10)

\* floor(2 * scale * F) for the fraction F = 0.r1 r2 ... in base `base`
\* (rs = <<r1, r2, ...>>), and whether 2 * scale * F is whole
RECURSIVE TwiceScaled(_, _, _)
TwiceScaled(rs, base, scale) ==
    IF rs = <<>> THEN [floor |-> 0, whole |-> TRUE]
    ELSE LET t == TwiceScaled(Tail(rs), base, scale)
             n == 2 * scale * Head(rs) + t.floor
         IN [floor |-> n \div base, whole |-> t.whole /\ n % base = 0]

\* a natural number plus one
RECURSIVE Increment(_)
Increment(ds) ==
    IF ds = <<>> THEN <<1>>
    ELSE IF ds[Len(ds)] < 9
    THEN SubSeq(ds, 1, Len(ds) - 1) \o <<ds[Len(ds)] + 1>>
    ELSE Increment(SubSeq(ds, 1, Len(ds) - 1)) \o <<0>>

\* Sprintf("%.<n>f") of whole + F, scale = 10^n: F is rounded to n decimals,
\* to nearest and to even on a tie; the result as whole part and decimals
Rounded(wholeDs, rs, base, scale) ==
    LET t    == TwiceScaled(rs, base, scale)
        down == t.floor \div 2
        up   == t.floor % 2 = 1 /\ (~t.whole \/ down % 2 = 1)
        dec  == IF up THEN down + 1 ELSE down
    IN IF dec < scale THEN [whole |-> wholeDs, dec |-> dec]
       ELSE [whole |-> Increment(wholeDs), dec |-> 0]

\* client.go:923-930: the loop over the units. size is held as its whole
\* part (digits) and its fraction (base-1024 digits, most significant
\* first); next := size / 1024 is below 1 exactly when the whole part of size
\* is below 1024
RECURSIVE ScaleLoop(_, _, _)
ScaleLoop(whole, frac, n) ==
    LET d == DivSmall(whole, 1024, 0)
    IN IF n >= Len(units) - 1 \/ StripZeros(d.quo) = <<>>
       THEN [whole |-> whole, frac |-> frac, i |-> n]
       ELSE ScaleLoop(StripZeros(d.quo), <<d.rem>> \o frac, n + 1)

\* client.go:909-934 (and part_012:641-666): formatBytes
client_formatBytes(bytes) ==
    LET b == SetString(bytes)
    IN IF bytes = <<>> \/ ~b.ok THEN <<"0", " ", "B">>
       ELSE IF b.neg
       THEN \* size / 1024 is negative, hence below 1: the loop ends at once
            <<Signed(TRUE, b.abs), ".", "00", " ", units[1]>>
       ELSE LET sz == ScaleLoop(b.abs, <<>>, 0)
                r  == Rounded(sz.whole, sz.frac, 1024, 100)
            IN <<DecString(r.whole), ".", Padded(r.dec, 2), " ", units[sz.i + 1]>>

\* miner.go:186-190: the loop over the units, integer division
RECURSIVE UnitLoop(_, _)
UnitLoop(value, unit) ==
    LET d == DivSmall(value, 1024, 0)
    IN IF StripZeros(d.quo) # <<>> /\ unit < Len(units) - 1
       THEN UnitLoop(StripZeros(d.quo), unit + 1)
       ELSE [value |-> value, unit |-> unit]

\* miner.go:174-198: formatBytes; the result of SetString is not looked at,
\* b is whatever the receiver holds (a negative b is below the threshold)
miner_formatBytes(bytes) ==
    LET b == SetString(bytes)
        l == IF b.neg THEN [value |-> b.abs, unit |-> 0] ELSE UnitLoop(b.abs, 0)
    IN IF l.value = <<>> THEN <<"0", " ", "B">>
       ELSE <<Signed(b.neg, l.value), " ", units[l.unit + 1]>>

\* the digits of ds below the n lowest, and the n lowest padded to n digits
High(ds, n) == IF Len(ds) > n THEN SubSeq(ds, 1, Len(ds) - n) ELSE <<>>
Low(ds, n) ==
    IF Len(ds) >= n THEN SubSeq(ds, Len(ds) - n + 1, Len(ds))
    ELSE [k \in 1..(n - Len(ds)) |-> 0] \o ds

\* Sprintf("%.6f FIL") of atto / 10^18: the whole part is atto without its 18
\* lowest digits, the fraction those 18 digits in base 10
AttoFilString(neg, abs) ==
    LET r == Rounded(High(abs, 18), Low(abs, 18), 10, 1000000)
    IN <<Signed(neg, r.whole), ".", Padded(r.dec, 6), " ", "FIL">>

\* client.go:937-953 (and part_012:669-685): formatAttoFil
formatAttoFil(attoFil) ==
    LET atto == SetString(attoFil)
    IN IF attoFil = <<>> \/ ~atto.ok THEN <<"0", " ", "FIL">>
       ELSE AttoFilString(atto.neg, atto.abs)

\* miner.go:201-215: formatFIL; the result of SetString is not looked at
formatFIL(attoFil) ==
    LET atto == SetString(attoFil)
    IN AttoFilString(atto.neg, atto.abs)

\* the characters of the short arguments explored
FormatAlphabet == {"0", "1", "5", "-", "x"}

\* the string of a sequence of digits
Chars(ds) == [k \in 1..Len(ds) |-> ToString(ds[k])]

\* longer arguments: around the unit boundaries, a tie of the rounding,
\* 1024^2 - 1, 2^30, 1024^6, 1024^7, 2 * 1024^7, and amounts of attoFIL
NotableArgs ==
    { Chars(<<1,0,2,3>>), Chars(<<1,0,2,4>>), Chars(<<1,1,5,2>>), Chars(<<1,5,3,6>>),
      Chars(<<1,0,4,8,5,7,5>>), Chars(<<1,0,4,8,5,7,6>>),
      Chars(<<1,0,7,3,7,4,1,8,2,4>>),
      Chars(<<1,1,5,2,9,2,1,5,0,4,6,0,6,8,4,6,9,7,6>>),
      Chars(<<1,1,8,0,5,9,1,6,2,0,7,1,7,4,1,1,3,0,3,4,2,4>>),
      Chars(<<2,3,6,1,1,8,3,2,4,1,4,3,4,8,2,2,6,0,6,8,4,8>>),
      Chars(<<1,0,0,0,0,0,0,0,0,0,0,0,0,0,0,0,0,0,0>>),
      Chars(<<1,5,0,0,0,0,0,0,0,0,0,0,0,0,0,0,0,0,0>>),
      Chars(<<1,2,3,4,5,6,7,8,9,0,1,2,3,4,5,6,7,8,9,0,1>>),
      Chars(<<9,9,9,9,9,9,9,9,9,9,9,9,9,9,9,9,9,9>>),
      Chars(<<2,0,4,8>>) \o <<"x">> }

FormatArgs ==
    UNION { [1..n -> FormatAlphabet] : n \in 0..MaxChars } \cup NotableArgs

FormatImpls ==
    {"client.formatBytes", "miner.formatBytes", "client.formatAttoFil", "miner.formatFIL"}

FormatBytes_Client ==
    /\ fImpl = "client.formatBytes"
    /\ fPc = "ready"
    /\ fOut' = client_formatBytes(fIn)
    /\ fPc' = "done"
    /\ UNCHANGED <<fImpl, fIn>>
    /\ UNCHANGED notFormat

FormatBytes_Miner ==
    /\ fImpl = "miner.formatBytes"
    /\ fPc = "ready"
    /\ fOut' = miner_formatBytes(fIn)
    /\ fPc' = "done"
    /\ UNCHANGED <<fImpl, fIn>>
    /\ UNCHANGED notFormat

FormatAttoFil ==
    /\ fImpl = "client.formatAttoFil"
    /\ fPc = "ready"
    /\ fOut' = formatAttoFil(fIn)
    /\ fPc' = "done"
    /\ UNCHANGED <<fImpl, fIn>>
    /\ UNCHANGED notFormat

FormatFIL ==
    /\ fImpl = "miner.formatFIL"
    /\ fPc = "ready"
    /\ fOut' = formatFIL(fIn)
    /\ fPc' = "done"
    /\ UNCHANGED <<fImpl, fIn>>
    /\ UNCHANGED notFormat

FormatInit ==
    /\ fImpl \in FormatImpls
    /\ fIn \in FormatArgs
    /\ fPc = "ready"
    /\ fOut = <<>>

FormatParked ==
    /\ fImpl = "client.formatBytes"
    /\ fIn = <<>>
    /\ fPc = "parked"
    /\ fOut = <<>>

FormatNext ==
    \/ FormatBytes_Client
    \/ FormatBytes_Miner
    \/ FormatAttoFil
    \/ FormatFIL

-----------------------------------------------------------------------------
(* The construction of a client and the attempts its calls make *)

\* client.go:29
defaultTimeout == 30

LoopbackURL == <<"http", ":", "/", "/", "127.0.0.1", ":", "1234", "/", "rpc", "/", "v0">>

\* part_013:25-30: RetryCount is left at its zero value
DefaultConfig == [APIURL |-> LoopbackURL, Timeout |-> 30, RetryCount |-> 0]

\* client.go:22-27: the configurations a caller can give; the zero value of
\* a field is the unset field (timeouts in seconds)
Configs ==
    [APIURL : {<<>>, <<"http", ":", "/", "/", "1.2.3.4", ":", "1234", "/", "rpc", "/", "v0">>},
     Timeout : {0, 10},
     RetryCount : 0..MaxRetryCount]

NoClient == [apiURL |-> <<>>, timeout |-> 0, transport |-> "none", RetryCount |-> 0]

\* client.go:32-49: New defaults Timeout and RetryCount in its copy of the
\* configuration; the Client it builds keeps apiURL, token and the HTTP
\* client only, and its calls go through callRPCWithRetry (client.go:118)
Config_New ==
    /\ kPc = "new"
    /\ kCtor = "New"
    /\ LET timeout == IF kCfg[1].Timeout = 0 THEN defaultTimeout ELSE kCfg[1].Timeout
       IN kClient' = [apiURL |-> kCfg[1].APIURL, timeout |-> timeout,
                      transport |-> "client.callRPCWithRetry", RetryCount |-> 0]
    /\ kPc' = "built"
    /\ UNCHANGED <<kCtor, kCfg, kAttempts>>
    /\ UNCHANGED notConfig

\* client.go:1158-1168: NewClient replaces a nil configuration by
\* DefaultConfig() and keeps any other as it is; its calls go through callRPC
\* (client.go:1171)
Config_NewClient ==
    /\ kPc = "new"
    /\ kCtor = "NewClient"
    /\ LET cfg == IF kCfg = <<>> THEN DefaultConfig ELSE kCfg[1]
       IN kClient' = [apiURL |-> cfg.APIURL, timeout |-> cfg.Timeout,
                      transport |-> "client.callRPC", RetryCount |-> cfg.RetryCount]
    /\ kPc' = "built"
    /\ UNCHANGED <<kCtor, kCfg, kAttempts>>
    /\ UNCHANGED notConfig

\* a method of the client is called on a node that keeps failing retryably
Config_Call ==
    /\ kPc = "built"
    /\ kPc' = "calling"
    /\ UNCHANGED <<kCtor, kCfg, kClient, kAttempts>>
    /\ UNCHANGED notConfig

\* client.go:1199-1207 (for i := 0; i <= c.config.RetryCount; i++) and
\* client.go:168 (one httpClient.Do): one more attempt, which fails
Config_Attempt ==
    /\ kPc = "calling"
    /\ IF kClient.transport = "client.callRPC"
       THEN kAttempts <= kClient.RetryCount
       ELSE kAttempts = 0
    /\ kAttempts' = kAttempts + 1
    /\ UNCHANGED <<kCtor, kCfg, kPc, kClient>>
    /\ UNCHANGED notConfig

\* client.go:1207 and client.go:170: the call returns the last failure
Config_GiveUp ==
    /\ kPc = "calling"
    /\ IF kClient.transport = "client.callRPC"
       THEN kAttempts > kClient.RetryCount
       ELSE kAttempts = 1
    /\ kPc' = "done"
    /\ UNCHANGED <<kCtor, kCfg, kClient, kAttempts>>
    /\ UNCHANGED notConfig

ConfigInit ==
    /\ kCtor \in {"New", "NewClient"}
    /\ kCfg \in {<<c>> : c \in Configs} \cup (IF kCtor = "NewClient" THEN {<<>>} ELSE {})
    /\ kPc = "new"
    /\ kClient = NoClient
    /\ kAttempts = 0

\* the construction is not under study: nothing is built
ConfigParked ==
    /\ kCtor = "New"
    /\ kCfg = <<>>
    /\ kPc = "parked"
    /\ kClient = NoClient
    /\ kAttempts = 0

ConfigNext ==
    \/ Config_New
    \/ Config_NewClient
    \/ Config_Call
    \/ Config_Attempt
    \/ Config_GiveUp

-----------------------------------------------------------------------------
(* The sectors list command: from flags and configuration to the client *)

\* list.go:39 and list.go:157: the two copies of newListCmd
CliImpls == {"list.go:39", "list.go:157"}

URLs == {"", "http://10.0.0.1:1234/rpc/v0", "http://10.0.0.2:1234/rpc/v0"}

Tokens == {"", "token-a"}

\* list.go:111-112: the flags, "" by default
Flags == [apiURL : URLs, authToken : Tokens]

\* fil.lotus.api_url and fil.lotus.token of the configuration, "" when the
\* key is absent
FileConfigs == [api_url : URLs, token : Tokens]

\* list.go:60-63: cfg.UnmarshalKey("fil.lotus", lotusCfg) overwrites the
\* fields of DefaultConfig() whose keys are present
UnmarshalKey(file) ==
    [APIURL    |-> IF file.api_url = "" THEN "http://127.0.0.1:1234/rpc/v0" ELSE file.api_url,
     AuthToken |-> file.token]

\* list.go:52-76: RunE of the first copy: the configuration, overridden by
\* the non-empty flags, is what NewClient keeps
RunE_Override ==
    /\ sPc = "run"
    /\ sImpl = "list.go:39"
    /\ LET lotusCfg == UnmarshalKey(sFile)
       IN sClient' = [apiURL |-> IF sFlags.apiURL # "" THEN sFlags.apiURL ELSE lotusCfg.APIURL,
                      token  |-> IF sFlags.authToken # "" THEN sFlags.authToken
                                 ELSE lotusCfg.AuthToken]
    /\ sPc' = "built"
    /\ UNCHANGED <<sImpl, sFlags, sFile>>
    /\ UNCHANGED notCli

\* list.go:170-185: RunE of the second copy: the client is built from the
\* configuration's values; the variables the flags are bound to are not read
RunE_ConfigOnly ==
    /\ sPc = "run"
    /\ sImpl = "list.go:157"
    /\ sClient' = [apiURL |-> sFile.api_url, token |-> sFile.token]
    /\ sPc' = "built"
    /\ UNCHANGED <<sImpl, sFlags, sFile>>
    /\ UNCHANGED notCli

CliInit ==
    /\ sImpl \in CliImpls
    /\ sFlags \in Flags
    /\ sFile \in FileConfigs
    /\ sPc = "run"
    /\ sClient = [apiURL |-> "", token |-> ""]

\* the command is not under study: it never runs
CliParked ==
    /\ sImpl = "list.go:39"
    /\ sFlags = [apiURL |-> "", authToken |-> ""]
    /\ sFile = [api_url |-> "", token |-> ""]
    /\ sPc = "parked"
    /\ sClient = [apiURL |-> "", token |-> ""]

CliNext ==
    \/ RunE_Override
    \/ RunE_ConfigOnly

-----------------------------------------------------------------------------
(* The classifiers: isRetryableError on an error's text, handleRPCError *)

UpperCase == <<"A", "B", "C", "D", "E", "F", "G", "H", "I", "J", "K", "L", "M",
               "N", "O", "P", "Q", "R", "S", "T", "U", "V", "W", "X", "Y", "Z">>

LowerCase == <<"a", "b", "c", "d", "e", "f", "g", "h", "i", "j", "k", "l", "m",
               "n", "o", "p", "q", "r", "s", "t", "u", "v", "w", "x", "y", "z">>

\* strings.ToLower on a string given as its characters
strings_ToLower(str) ==
    [k \in 1..Len(str) |->
        IF \E u \in 1..Len(UpperCase) : UpperCase[u] = str[k]
        THEN LowerCase[CHOOSE u \in 1..Len(UpperCase) : UpperCase[u] = str[k]]
        ELSE str[k]]

\* strings.Contains
strings_Contains(str, substr) ==
    \E k \in 0..(Len(str) - Len(substr)) : SubSeq(str, k + 1, k + Len(substr)) = substr

\* client.go:722-732: the list, character by character
retryableErrorsChars ==
    {<<"c", "o", "n", "n", "e", "c", "t", "i", "o", "n", " ", "r", "e", "s", "e", "t">>,
     <<"c", "o", "n", "n", "e", "c", "t", "i", "o", "n", " ", "r", "e", "f", "u", "s", "e", "d">>,
     <<"t", "i", "m", "e", "o", "u", "t">>,
     <<"i", "/", "o", " ", "t", "i", "m", "e", "o", "u", "t">>,
     <<"E", "O", "F">>,
     <<"n", "e", "t", "w", "o", "r", "k", " ", "i", "s", " ", "u", "n", "r", "e", "a", "c", "h", "a", "b", "l", "e">>,
     <<"5", "0", "0">>,
     <<"5", "0", "3">>,
     <<"5", "0", "4">>}

\* client.go:734-741: the test of isRetryableError on err.Error() of a
\* non-nil error
isRetryableErrorText(errStr) ==
    \E retryErr \in retryableErrorsChars :
        strings_Contains(strings_ToLower(errStr), retryErr)

\* the texts of the transient failures: connection reset, connection
\* refused, the timeouts of the network and of the HTTP client, network
\* unreachable, the statuses 500, 503 and 504, io.EOF and io.ErrUnexpectedEOF
TransientTexts ==
    {<<"r", "e", "a", "d", ":", " ", "c", "o", "n", "n", "e", "c", "t", "i", "o", "n", " ", "r", "e", "s", "e", "t", " ", "b", "y", " ", "p", "e", "e", "r">>,
     <<"d", "i", "a", "l", " ", "t", "c", "p", ":", " ", "c", "o", "n", "n", "e", "c", "t", "i", "o", "n", " ", "r", "e", "f", "u", "s", "e", "d">>,
     <<"i", "/", "o", " ", "t", "i", "m", "e", "o", "u", "t">>,
     <<"C", "l", "i", "e", "n", "t", ".", "T", "i", "m", "e", "o", "u", "t", " ", "e", "x", "c", "e", "e", "d", "e", "d">>,
     <<"c", "o", "n", "n", "e", "c", "t", ":", " ", "n", "e", "t", "w", "o", "r", "k", " ", "i", "s", " ", "u", "n", "r", "e", "a", "c", "h", "a", "b", "l", "e">>,
     <<"u", "n", "e", "x", "p", "e", "c", "t", "e", "d", " ", "s", "t", "a", "t", "u", "s", " ", "c", "o", "d", "e", ":", " ", "5", "0", "0">>,
     <<"u", "n", "e", "x", "p", "e", "c", "t", "e", "d", " ", "s", "t", "a", "t", "u", "s", " ", "c", "o", "d", "e", ":", " ", "5", "0", "3">>,
     <<"u", "n", "e", "x", "p", "e", "c", "t", "e", "d", " ", "s", "t", "a", "t", "u", "s", " ", "c", "o", "d", "e", ":", " ", "5", "0", "4">>,
     <<"E", "O", "F">>,
     <<"u", "n", "e", "x", "p", "e", "c", "t", "e", "d", " ", "E", "O", "F">>}

\* texts of failures that are not transient
OtherTexts ==
    {<<"u", "n", "e", "x", "p", "e", "c", "t", "e", "d", " ", "s", "t", "a", "t", "u", "s", " ", "c", "o", "d", "e", ":", " ", "4", "0", "4">>,
     <<"R", "P", "C", " ", "e", "r", "r", "o", "r", ":", " ", "i", "n", "v", "a", "l", "i", "d", " ", "p", "a", "r", "a", "m", "s">>}

\* client.go:170: fmt.Errorf("failed to send request: %w", err) puts its
\* text before the cause's
SendPrefix == <<"f", "a", "i", "l", "e", "d", " ", "t", "o", " ", "s", "e", "n", "d", " ", "r", "e", "q", "u", "e", "s", "t", ":", " ">>

ErrorTextsIn == LET base == TransientTexts \cup OtherTexts
                IN base \cup {SendPrefix \o t : t \in base}

\* part_011:46-57: handleRPCError of the older copy
part011_handleRPCError(code) ==
    CASE code = -32000 -> NewLotusError("ErrUnknown", "rpc")
      [] code = -32001 -> NewLotusError("ErrInvalidParams", "rpc")
      [] code = -32002 -> NewLotusError("ErrNotFound", "rpc")
      [] OTHER         -> NewLotusError("ErrUnknown", "rpc")

\* the error codes of an RPC error object: the server-specific codes around
\* -32000 and the codes JSON-RPC 2.0 predefines
RPCCodes ==
    ((-32000 - MaxCodeOffset)..(-32000 + MaxCodeOffset))
        \cup {-32700, -32600, -32601, -32602, -32603, 0, 1}

ClassifyFns == {"isRetryableError", "rpc.handleRPCError", "part011.handleRPCError"}

\* client.go:716-742
Classify_Retryable ==
    /\ qPc = "ready"
    /\ qFn = "isRetryableError"
    /\ qRetry' = isRetryableErrorText(qText)
    /\ qPc' = "done"
    /\ UNCHANGED <<qFn, qText, qCode, qErr>>
    /\ UNCHANGED notClassify

\* rpc.go:23-36
Classify_RPCError ==
    /\ qPc = "ready"
    /\ qFn = "rpc.handleRPCError"
    /\ qErr' = handleRPCError(qCode)
    /\ qPc' = "done"
    /\ UNCHANGED <<qFn, qText, qCode, qRetry>>
    /\ UNCHANGED notClassify

\* part_011:46-57
Classify_RPCError011 ==
    /\ qPc = "ready"
    /\ qFn = "part011.handleRPCError"
    /\ qErr' = part011_handleRPCError(qCode)
    /\ qPc' = "done"
    /\ UNCHANGED <<qFn, qText, qCode, qRetry>>
    /\ UNCHANGED notClassify

ClassifyInit ==
    /\ qFn \in ClassifyFns
    /\ qText \in (IF qFn = "isRetryableError" THEN ErrorTextsIn ELSE {<<>>})
    /\ qCode \in (IF qFn = "isRetryableError" THEN {0} ELSE RPCCodes)
    /\ qPc = "ready"
    /\ qRetry = FALSE
    /\ qErr = NoErr

\* the classifiers are not under study: none is applied
ClassifyParked ==
    /\ qFn = "isRetryableError"
    /\ qText = <<>>
    /\ qCode = 0
    /\ qPc = "parked"
    /\ qRetry = FALSE
    /\ qErr = NoErr

ClassifyNext ==
    \/ Classify_Retryable
    \/ Classify_RPCError
    \/ Classify_RPCError011

-----------------------------------------------------------------------------
(* The parameter lists of the miner-scoped methods *)

\* the elements of a []interface{}
Str(v) == [t |-> "string", s |-> v, n |-> 0]
Nil == [t |-> "nil", s |-> "", n |-> 0]
False == [t |-> "bool", s |-> "false", n |-> 0]
Uint(v) == [t |-> "uint64", s |-> "", n |-> v]

\* client.go:199-367 and client.go:1293-1302: the methods that take a miner
\* identifier, the second copy of ListSectors under its line
MinerMethods ==
    {"ListSectors", "GetMinerInfo", "GetMinerPower", "GetMinerAvailableBalance",
     "GetMinerFaults", "GetMinerDeadlines", "GetMinerPartitions",
     "GetMinerProvingDeadline", "ListSectors:1293"}

\* the params slice each method builds (client.go:201, 253, 300, 312, 324,
\* 336, 348, 360 and 1295)
ParamsOf(method, miner, dlIdx) ==
    CASE method = "ListSectors"        -> <<Str(miner), Nil, False>>
      [] method = "GetMinerPartitions" -> <<Str(miner), Uint(dlIdx), Nil>>
      [] method = "ListSectors:1293"   -> <<Str(miner)>>
      [] OTHER                         -> <<Str(miner), Nil>>

\* encoding/json on one element: a string is quoted, nil is null
Marshal(e) ==
    CASE e.t = "string" -> "\"" \o e.s \o "\""
      [] e.t = "nil"    -> "null"
      [] e.t = "bool"   -> e.s
      [] OTHER          -> ToString(e.n)

\* the method builds its params slice
BuildParams ==
    /\ jPc = "call"
    /\ jParams' = ParamsOf(jMethod, jMinerID, jDlIdx)
    /\ jPc' = "built"
    /\ UNCHANGED <<jMethod, jMinerID, jDlIdx, jBody>>
    /\ UNCHANGED notParams

\* client.go:143-153 and 1173-1183: the transport marshals the request, the
\* params member being the JSON array of the elements in order
MarshalParams ==
    /\ jPc = "built"
    /\ jBody' = [k \in 1..Len(jParams) |-> Marshal(jParams[k])]
    /\ jPc' = "sent"
    /\ UNCHANGED <<jMethod, jMinerID, jDlIdx, jParams>>
    /\ UNCHANGED notParams

ParamsInit ==
    /\ jMethod \in MinerMethods
    /\ jMinerID \in {"f01234", "f0999", "t01000"}
    /\ jDlIdx \in (IF jMethod = "GetMinerPartitions" THEN 0..MaxDeadline ELSE {0})
    /\ jPc = "call"
    /\ jParams = <<>>
    /\ jBody = <<>>

\* the methods are not under study: none is called
ParamsParked ==
    /\ jMethod = "ListSectors"
    /\ jMinerID = ""
    /\ jDlIdx = 0
    /\ jPc = "parked"
    /\ jParams = <<>>
    /\ jBody = <<>>

ParamsNext ==
    \/ BuildParams
    \/ MarshalParams

-----------------------------------------------------------------------------
(* The network power share: calculatePowerShare and its display *)

\* a float64 result as the exact quotient num / den (den > 0), or +Inf, or
\* the run-time panic of big.Float.Quo on 0 / 0
Quotient(num, den) == [kind |-> "num", num |-> num, den |-> den]
Inf == [kind |-> "inf", num |-> 0, den |-> 1]
Panic == [kind |-> "panic", num |-> 0, den |-> 1]

\* client.go:879-906: empty or unparsable strings and a zero total give 0;
\* else minerBytes * 100 / totalBytes
client_calculatePowerShare(minerPower, totalPower) ==
    LET minerBytes == SetString(minerPower)
        totalBytes == SetString(totalPower)
    IN IF minerPower = <<>> \/ totalPower = <<>> THEN Quotient(0, 1)
       ELSE IF ~minerBytes.ok THEN Quotient(0, 1)
       ELSE IF ~totalBytes.ok THEN Quotient(0, 1)
       ELSE IF totalBytes.abs = <<>> THEN Quotient(0, 1)
       ELSE Quotient(Int64(minerBytes.abs) * 100, Int64(totalBytes.abs))

\* miner.go:155-171: the results of SetString are not looked at; p / np in
\* big.Float, where x / 0 is +Inf and 0 / 0 panics with ErrNaN
miner_calculatePowerShare(power, networkPower) ==
    LET p  == Int64(SetString(power).abs)
        np == Int64(SetString(networkPower).abs)
    IN IF np # 0 THEN Quotient(p, np)
       ELSE IF p # 0 THEN Inf
       ELSE Panic

PowerStrings ==
    UNION {[1..n -> {"0", "1", "5", "x"}] : n \in 0..MaxPowerChars}

CalculatePowerShare_Client ==
    /\ hPc = "ready"
    /\ hImpl = "client"
    /\ hShare' = client_calculatePowerShare(hPower, hNet)
    /\ hPc' = "computed"
    /\ UNCHANGED <<hImpl, hPower, hNet, hStat>>
    /\ UNCHANGED notShare

CalculatePowerShare_Miner ==
    /\ hPc = "ready"
    /\ hImpl = "miner"
    /\ hShare' = miner_calculatePowerShare(hPower, hNet)
    /\ hPc' = "computed"
    /\ UNCHANGED <<hImpl, hPower, hNet, hStat>>
    /\ UNCHANGED notShare

\* client.go:967 and miner.go:116: fmt.Sprintf("%.4f%%", share * 100); the
\* number printed is kept as a quotient, its rounding to four decimals left
\* out
ShowShare ==
    /\ hPc = "computed"
    /\ hShare.kind # "panic"
    /\ hStat' = IF hShare.kind = "inf" THEN Inf
                ELSE Quotient(hShare.num * 100, hShare.den)
    /\ hPc' = "shown"
    /\ UNCHANGED <<hImpl, hPower, hNet, hShare>>
    /\ UNCHANGED notShare

ShareInit ==
    /\ hImpl \in {"client", "miner"}
    /\ hPower \in PowerStrings
    /\ hNet \in PowerStrings
    /\ hPc = "ready"
    /\ hShare = Quotient(0, 1)
    /\ hStat = Quotient(0, 1)

\* the power share is not under study: it is never computed
ShareParked ==
    /\ hImpl = "client"
    /\ hPower = <<>>
    /\ hNet = <<>>
    /\ hPc = "parked"
    /\ hShare = Quotient(0, 1)
    /\ hStat = Quotient(0, 1)

ShareNext ==
    \/ CalculatePowerShare_Client
    \/ CalculatePowerShare_Miner
    \/ ShowShare

-----------------------------------------------------------------------------
(* The sector counts of the aggregate's record *)

\* a uint64: v when not wrapped, 2^64 - v when wrapped
U64(v) == [wrapped |-> FALSE, v |-> v]

\* a - b in uint64
Sub64(a, b) == IF a >= b THEN U64(a - b) ELSE [wrapped |-> TRUE, v |-> b - a]

\* part_012:144: json.Unmarshal into a *interface{} stores a JSON array as a
\* []interface{}, whatever its elements
DynamicType(json) == IF json = "array" THEN "[]interface {}" ELSE "other"

\* the counts of the zero-valued record
NoCounts == [total |-> 0, active |-> U64(0), faulty |-> 0]

\* client.go:595-603: the sector_info task sets Live and Active to the
\* length of the sector list
Client_SectorInfo ==
    /\ nImpl = "client"
    /\ "sector_info" \notin nDone
    /\ nRec' = [nRec EXCEPT !.total = nLive, !.active = U64(nLive)]
    /\ nDone' = nDone \cup {"sector_info"}
    /\ UNCHANGED <<nImpl, nLive, nFaults>>
    /\ UNCHANGED notSectors

\* client.go:604-610: the faults task sets Faulty to the length of the
\* fault list
Client_Faults ==
    /\ nImpl = "client"
    /\ "faults" \notin nDone
    /\ nRec' = [nRec EXCEPT !.faulty = nFaults]
    /\ nDone' = nDone \cup {"faults"}
    /\ UNCHANGED <<nImpl, nLive, nFaults>>
    /\ UNCHANGED notSectors

\* part_012:519-526: the goroutine stores the fault list
Part012_Faults ==
    /\ nImpl = "part012"
    /\ nDone = {}
    /\ nRec' = [nRec EXCEPT !.faulty = nFaults]
    /\ nDone' = {"faults"}
    /\ UNCHANGED <<nImpl, nLive, nFaults>>
    /\ UNCHANGED notSectors

\* part_012:537-550: the live sectors are decoded into an interface{}; the
\* counts are set only when its dynamic type is []uint64
Part012_Live ==
    /\ nImpl = "part012"
    /\ nDone = {"faults"}
    /\ nRec' = IF DynamicType("array") = "[]uint64"
               THEN [nRec EXCEPT !.total = nLive,
                                 !.active = Sub64(nLive, nRec.faulty)]
               ELSE nRec
    /\ nDone' = {"faults", "sector_info"}
    /\ UNCHANGED <<nImpl, nLive, nFaults>>
    /\ UNCHANGED notSectors

SectorsInit ==
    /\ nImpl \in {"client", "part012"}
    /\ nLive \in 0..MaxSectors
    /\ nFaults \in 0..MaxSectors
    /\ nDone = {}
    /\ nRec = NoCounts

\* the sector counts are not under study: no sub-task runs
SectorsParked ==
    /\ nImpl = "client"
    /\ nLive = 0
    /\ nFaults = 0
    /\ nDone = {"parked"}
    /\ nRec = NoCounts

SectorsNext ==
    \/ Client_SectorInfo
    \/ Client_Faults
    \/ Part012_Faults
    \/ Part012_Live

-----------------------------------------------------------------------------
(* LoadFilConfig: defaults, the .thctl.env files, the environment *)

\* fil.go:35-48: the first of the two files that exists, <<>> when none does
FirstFound(cwd, home) == IF cwd # <<>> THEN cwd ELSE home

\* fil.go:46: godotenv.Load(envFile) sets the variables of the file that the
\* process environment does not hold yet, and leaves the others as they are
godotenv_Load(env, file) == IF env # "" THEN env ELSE file[1]

\* fil.go:27-32: the defaults
Load_Defaults ==
    /\ ePc = "start"
    /\ eURL' = "http://127.0.0.1:1234/rpc/v0"
    /\ ePc' = "defaults"
    /\ UNCHANGED <<eCwd, eHome, eEnv>>
    /\ UNCHANGED notEnv

\* fil.go:34-49: the first file found is loaded into the environment, the
\* other is not looked at
Load_EnvFile ==
    /\ ePc = "defaults"
    /\ eEnv' = IF FirstFound(eCwd, eHome) = <<>> THEN eEnv
               ELSE godotenv_Load(eEnv, FirstFound(eCwd, eHome))
    /\ ePc' = "loaded"
    /\ UNCHANGED <<eCwd, eHome, eURL>>
    /\ UNCHANGED notEnv

\* fil.go:51-55 and 65: a non-empty LOTUS_API_URL of the environment replaces
\* the default; cfg is returned
Load_Getenv ==
    /\ ePc = "loaded"
    /\ eURL' = IF eEnv # "" THEN eEnv ELSE eURL
    /\ ePc' = "done"
    /\ UNCHANGED <<eCwd, eHome, eEnv>>
    /\ UNCHANGED notEnv

EnvInit ==
    /\ eCwd \in {<<>>, <<"">>, <<"http://10.0.0.1:1234/rpc/v0">>, <<"http://10.0.0.2:1234/rpc/v0">>}
    /\ eHome \in {<<>>, <<"">>, <<"http://10.0.0.1:1234/rpc/v0">>, <<"http://10.0.0.3:1234/rpc/v0">>}
    /\ eEnv \in {"", "http://10.0.0.1:1234/rpc/v0", "http://10.0.0.4:1234/rpc/v0"}
    /\ ePc = "start"
    /\ eURL = ""

\* LoadFilConfig is not under study: it is not called
EnvParked ==
    /\ eCwd = <<>>
    /\ eHome = <<>>
    /\ eEnv = ""
    /\ ePc = "parked"
    /\ eURL = ""

EnvNext ==
    \/ Load_Defaults
    \/ Load_EnvFile
    \/ Load_Getenv

-----------------------------------------------------------------------------
(* config.Load: the configuration loaded once per process *)

\* fil.go:178 and 285: config = &Config{}
EmptyConfig == [APIURL |-> "", Timeout |-> 0]

\* fil.go:181-185 and 188-197: what the function given to configOnce.Do
\* leaves in err before the values are set: godotenv.Load fails with a
\* not-exist error on a missing file and with a parse error on a bad one
LoadFiles(cwd, home) ==
    CASE cwd = "bad"                     -> "failed to load .thctl.env file"
      [] cwd = "absent" /\ home = "bad"  -> "failed to load home directory .thctl.env file"
      [] OTHER                           -> ""

\* fil.go:200-203, 215-220: getEnvWithDefault and getDurationEnvWithDefault
\* (the files only add variables the environment lacks; here they hold none
\* of the Lotus variables)
FromEnv(env) ==
    [APIURL |-> IF env # "" THEN env ELSE "/ip4/127.0.0.1/tcp/1234", Timeout |-> 30]

\* fil.go:176-213: Load. The first call runs the function of configOnce,
\* which returns early on a load error, config being the empty Config by
\* then; every later call skips it, its own err being nil
Load ==
    /\ oLoads < MaxLoads
    /\ oLoads' = oLoads + 1
    /\ oOnce' = TRUE
    /\ LET err == IF oOnce THEN "" ELSE LoadFiles(oCwd, oHome)
           cfg == IF oOnce THEN oConfig
                  ELSE IF err # "" THEN <<EmptyConfig>> ELSE <<FromEnv(oEnv)>>
       IN /\ oConfig' = cfg
          /\ oRet' = IF err # "" THEN [cfg |-> <<>>, err |-> err]
                     ELSE [cfg |-> cfg, err |-> ""]
          /\ oFirstErr' = IF oLoads = 0 THEN err # "" ELSE oFirstErr
    /\ UNCHANGED <<oCwd, oHome, oEnv>>
    /\ UNCHANGED notOnce

OnceInit ==
    /\ oCwd \in {"absent", "ok", "bad"}
    /\ oHome \in {"absent", "ok", "bad"}
    /\ oEnv \in {"", "/ip4/10.0.0.1/tcp/1234", "http://10.0.0.2:1234/rpc/v0"}
    /\ oOnce = FALSE
    /\ oConfig = <<>>
    /\ oLoads = 0
    /\ oFirstErr = FALSE
    /\ oRet = [cfg |-> <<>>, err |-> ""]

\* config.Load is not under study: it is not called
OnceParked ==
    /\ oCwd = "absent"
    /\ oHome = "absent"
    /\ oEnv = ""
    /\ oOnce = FALSE
    /\ oConfig = <<>>
    /\ oLoads = -1
    /\ oFirstErr = FALSE
    /\ oRet = [cfg |-> <<>>, err |-> ""]

OnceNext == Load

-----------------------------------------------------------------------------
(* GetMinerPowerRank: the rank of a miner among the listed miners *)

\* a > b on Go strings: byte by byte, a proper prefix being the smaller
\* (the strings of the model hold decimal digits only)
RECURSIVE StringGreater(_, _)
StringGreater(a, b) ==
    IF a = <<>> THEN FALSE
    ELSE IF b = <<>> THEN TRUE
    ELSE IF Head(a) # Head(b) THEN DigitVal(Head(a)) > DigitVal(Head(b))
    ELSE StringGreater(Tail(a), Tail(b))

\* sort.Slice(powers, less) with less(i, j) = key[i] > key[j]: some order of
\* the elements in which no element is less than one before it; the order
\* of elements that compare equal is not specified
SortSlice(key) ==
    {p \in [1..Len(key) -> 1..Len(key)] :
        /\ \A x, y \in 1..Len(key) : x # y => p[x] # p[y]
        /\ \A x, y \in 1..Len(key) : x < y => ~StringGreater(key[p[y]], key[p[x]])}

\* client.go:1112-1118 and 1124-1130: the position of the miner, from 1
RankIn(p, miner) == CHOOSE k \in 1..Len(p) : p[k] = miner

PowerTexts == {<<"5">>, <<"9">>, <<"1", "0">>, <<"1", "0", "0">>}

\* client.go:1062-1133: the powers of the listed miners are fetched, sorted
\* by raw power and then by quality-adjusted power, and the position of the
\* miner in each order is returned
GetMinerPowerRank ==
    /\ mPc = "call"
    /\ \E byRaw \in SortSlice(mRaw), byAdj \in SortSlice(mAdj) :
          /\ mRawRank' = RankIn(byRaw, mTarget)
          /\ mAdjRank' = RankIn(byAdj, mTarget)
    /\ mPc' = "returned"
    /\ UNCHANGED <<mRaw, mAdj, mTarget>>
    /\ UNCHANGED notRank

RankInit ==
    /\ mRaw \in [1..NumMiners -> PowerTexts]
    /\ mAdj \in [1..NumMiners -> PowerTexts]
    /\ mTarget \in 1..NumMiners
    /\ mPc = "call"
    /\ mRawRank = 0
    /\ mAdjRank = 0

\* GetMinerPowerRank is not under study: it is not called
RankParked ==
    /\ mRaw = <<>>
    /\ mAdj = <<>>
    /\ mTarget = 0
    /\ mPc = "parked"
    /\ mRawRank = 0
    /\ mAdjRank = 0

RankNext == GetMinerPowerRank

-----------------------------------------------------------------------------
(* The authentication callback: WaitForCallback and handleCallback *)

Requests == 1..NumCallbacks

\* the handlers blocked in the send `c.creds <- &creds` (part_015:84)
Sending == {r \in Requests : bHandler[r] = "sending"}

\* part_015:71-84: a POST reaches the serving server; handleCallback answers
\* 400 to a body that does not decode, else it comes to the send on the
\* unbuffered channel creds
Post(r) ==
    /\ bServer = "serving"
    /\ bHandler[r] = "none"
    /\ bHandler' = [bHandler EXCEPT ![r] = IF bBody[r] THEN "sending" ELSE "rejected"]
    /\ UNCHANGED <<bBody, bWait, bServer, bShutdown>>
    /\ UNCHANGED notAuth

\* part_015:61-63 with 84: the select of WaitForCallback receives from creds,
\* which lets one sending handler go on; WaitForCallback returns
RecvCreds(r) ==
    /\ bWait = "select"
    /\ bHandler[r] = "sending"
    /\ bHandler' = [bHandler EXCEPT ![r] = "delivered"]
    /\ bWait' = "creds"
    /\ UNCHANGED <<bBody, bServer, bShutdown>>
    /\ UNCHANGED notAuth

\* part_015:86-95: the handler writes its 200 response and starts the
\* goroutine that shuts the server down
Respond(r) ==
    /\ bHandler[r] = "delivered"
    /\ bHandler' = [bHandler EXCEPT ![r] = "answered"]
    /\ bShutdown' = TRUE
    /\ UNCHANGED <<bBody, bWait, bServer>>
    /\ UNCHANGED notAuth

\* part_015:92-94 with 55: Shutdown closes the listener; ListenAndServe
\* returns http.ErrServerClosed and the server goroutine ends
Shutdown ==
    /\ bShutdown
    /\ bServer = "serving"
    /\ bServer' = "closed"
    /\ UNCHANGED <<bBody, bHandler, bWait, bShutdown>>
    /\ UNCHANGED notAuth

\* part_015:54-56: ListenAndServe returns another error (the port is taken,
\* the listener fails); the goroutine comes to the send on the unbuffered
\* channel err
ServerFails ==
    /\ bServer = "serving"
    /\ ~bShutdown
    /\ bServer' = "failing"
    /\ UNCHANGED <<bBody, bHandler, bWait, bShutdown>>
    /\ UNCHANGED notAuth

\* part_015:64-65 with 56: the select receives the server's error
RecvErr ==
    /\ bWait = "select"
    /\ bServer = "failing"
    /\ bServer' = "reported"
    /\ bWait' = "error"
    /\ UNCHANGED <<bBody, bHandler, bShutdown>>
    /\ UNCHANGED notAuth

\* part_015:66-67: five minutes pass without any sender; the server is left
\* running
Timeout ==
    /\ bWait = "select"
    /\ Sending = {}
    /\ bServer # "failing"
    /\ bWait' = "timeout"
    /\ UNCHANGED <<bBody, bHandler, bServer, bShutdown>>
    /\ UNCHANGED notAuth

AuthInit ==
    /\ bBody \in [Requests -> BOOLEAN]
    /\ bHandler = [r \in Requests |-> "none"]
    /\ bWait = "select"
    /\ bServer = "serving"
    /\ bShutdown = FALSE

\* the callback is not under study: WaitForCallback is not called
AuthParked ==
    /\ bBody = [r \in Requests |-> FALSE]
    /\ bHandler = [r \in Requests |-> "none"]
    /\ bWait = "parked"
    /\ bServer = "parked"
    /\ bShutdown = FALSE

AuthNext ==
    \/ \E r \in Requests : Post(r)
    \/ \E r \in Requests : RecvCreds(r)
    \/ \E r \in Requests : Respond(r)
    \/ Shutdown
    \/ ServerFails
    \/ RecvErr
    \/ Timeout

-----------------------------------------------------------------------------
(* Specifications *)

vars == <<retryVars, resolveVars, aggVars, fmtVars, cfgVars, cliVars, classifyVars, paramVars, shareVars, sectorVars, envVars, onceVars, rankVars, authVars>>

\* the retried call, for every implementation, RetryCount and answer
InitRetry ==
    /\ RetryInit
    /\ ResolveParked
    /\ AggParked
    /\ FormatParked
    /\ ConfigParked
    /\ CliParked
    /\ ClassifyParked
    /\ ParamsParked
    /\ ShareParked
    /\ SectorsParked
    /\ EnvParked
    /\ OnceParked
    /\ RankParked
    /\ AuthParked

SpecRetry == InitRetry /\ [][RetryNext]_vars

\* the endpoint resolver, for every implementation and endpoint
InitResolve ==
    /\ ResolveInit
    /\ RetryParked
    /\ AggParked
    /\ FormatParked
    /\ ConfigParked
    /\ CliParked
    /\ ClassifyParked
    /\ ParamsParked
    /\ ShareParked
    /\ SectorsParked
    /\ EnvParked
    /\ OnceParked
    /\ RankParked
    /\ AuthParked

SpecResolve == InitResolve /\ [][ResolveNext]_vars

\* the Domain Client's ListSectors and the aggregate, for every miner id,
\* answer and interleaving of the aggregate's goroutines
InitAgg ==
    /\ AggInit
    /\ RetryParked
    /\ ResolveParked
    /\ FormatParked
    /\ ConfigParked
    /\ CliParked
    /\ ClassifyParked
    /\ ParamsParked
    /\ ShareParked
    /\ SectorsParked
    /\ EnvParked
    /\ OnceParked
    /\ RankParked
    /\ AuthParked

SpecAgg == InitAgg /\ [][AggNext]_vars

\* the display formatters, for every formatter and argument
InitFormat ==
    /\ FormatInit
    /\ RetryParked
    /\ ResolveParked
    /\ AggParked
    /\ ConfigParked
    /\ CliParked
    /\ ClassifyParked
    /\ ParamsParked
    /\ ShareParked
    /\ SectorsParked
    /\ EnvParked
    /\ OnceParked
    /\ RankParked
    /\ AuthParked

SpecFormat == InitFormat /\ [][FormatNext]_vars

\* the construction of a client, for every constructor and configuration
InitConfig ==
    /\ ConfigInit
    /\ RetryParked
    /\ ResolveParked
    /\ AggParked
    /\ FormatParked
    /\ CliParked
    /\ ClassifyParked
    /\ ParamsParked
    /\ ShareParked
    /\ SectorsParked
    /\ EnvParked
    /\ OnceParked
    /\ RankParked
    /\ AuthParked

SpecConfig == InitConfig /\ [][ConfigNext]_vars

\* the sectors list command, for every copy, flag value and configuration
InitCli ==
    /\ CliInit
    /\ RetryParked
    /\ ResolveParked
    /\ AggParked
    /\ FormatParked
    /\ ConfigParked
    /\ ClassifyParked
    /\ ParamsParked
    /\ ShareParked
    /\ SectorsParked
    /\ EnvParked
    /\ OnceParked
    /\ RankParked
    /\ AuthParked

SpecCli == InitCli /\ [][CliNext]_vars

\* the classifiers, for every error text and RPC error code
InitClassify ==
    /\ ClassifyInit
    /\ RetryParked
    /\ ResolveParked
    /\ AggParked
    /\ FormatParked
    /\ ConfigParked
    /\ CliParked
    /\ ParamsParked
    /\ ShareParked
    /\ SectorsParked
    /\ EnvParked
    /\ OnceParked
    /\ RankParked
    /\ AuthParked

SpecClassify == InitClassify /\ [][ClassifyNext]_vars

\* the miner-scoped methods, for every method and argument
InitParams ==
    /\ ParamsInit
    /\ RetryParked
    /\ ResolveParked
    /\ AggParked
    /\ FormatParked
    /\ ConfigParked
    /\ CliParked
    /\ ClassifyParked
    /\ ShareParked
    /\ SectorsParked
    /\ EnvParked
    /\ OnceParked
    /\ RankParked
    /\ AuthParked

SpecParams == InitParams /\ [][ParamsNext]_vars

\* the network power share, for both copies and every pair of power strings
InitShare ==
    /\ ShareInit
    /\ RetryParked
    /\ ResolveParked
    /\ AggParked
    /\ FormatParked
    /\ ConfigParked
    /\ CliParked
    /\ ClassifyParked
    /\ ParamsParked
    /\ SectorsParked
    /\ EnvParked
    /\ OnceParked
    /\ RankParked
    /\ AuthParked

SpecShare == InitShare /\ [][ShareNext]_vars

\* the sector counts, for both copies and every length of the two lists
InitSectors ==
    /\ SectorsInit
    /\ RetryParked
    /\ ResolveParked
    /\ AggParked
    /\ FormatParked
    /\ ConfigParked
    /\ CliParked
    /\ ClassifyParked
    /\ ParamsParked
    /\ ShareParked
    /\ EnvParked
    /\ OnceParked
    /\ RankParked
    /\ AuthParked

SpecSectors == InitSectors /\ [][SectorsNext]_vars

\* LoadFilConfig, for every content of the two files and of the environment
InitEnv ==
    /\ EnvInit
    /\ RetryParked
    /\ ResolveParked
    /\ AggParked
    /\ FormatParked
    /\ ConfigParked
    /\ CliParked
    /\ ClassifyParked
    /\ ParamsParked
    /\ ShareParked
    /\ SectorsParked
    /\ OnceParked
    /\ RankParked
    /\ AuthParked

SpecEnv == InitEnv /\ [][EnvNext]_vars

\* config.Load called several times, for every state of the two files
InitOnce ==
    /\ OnceInit
    /\ RetryParked
    /\ ResolveParked
    /\ AggParked
    /\ FormatParked
    /\ ConfigParked
    /\ CliParked
    /\ ClassifyParked
    /\ ParamsParked
    /\ ShareParked
    /\ SectorsParked
    /\ EnvParked
    /\ RankParked
    /\ AuthParked

SpecOnce == InitOnce /\ [][OnceNext]_vars

\* GetMinerPowerRank, for every power of the listed miners
InitRank ==
    /\ RankInit
    /\ RetryParked
    /\ ResolveParked
    /\ AggParked
    /\ FormatParked
    /\ ConfigParked
    /\ CliParked
    /\ ClassifyParked
    /\ ParamsParked
    /\ ShareParked
    /\ SectorsParked
    /\ EnvParked
    /\ OnceParked
    /\ AuthParked

SpecRank == InitRank /\ [][RankNext]_vars

\* the authentication callback, for every arrival of the requests; a
\* goroutine that can take a step takes it in the end
InitAuth ==
    /\ AuthInit
    /\ RetryParked
    /\ ResolveParked
    /\ AggParked
    /\ FormatParked
    /\ ConfigParked
    /\ CliParked
    /\ ClassifyParked
    /\ ParamsParked
    /\ ShareParked
    /\ SectorsParked
    /\ EnvParked
    /\ OnceParked
    /\ RankParked

SpecAuth == InitAuth /\ [][AuthNext]_vars /\ WF_vars(AuthNext)

-----------------------------------------------------------------------------
(* Properties of the retried call *)

\* C1: for every RetryCount N >= 0, a call whose every attempt fails with a
\* retryable failure invokes the transport exactly N+1 times and then
\* returns that failure.
C1_RetryTerminates ==
    (rPc = "done" /\ ~ctxCancelled /\ calls >= 1 /\ allRetryable)
        => (calls = RetryCount + 1 /\ ret # NoErr /\ ret.resp = lastResp)

\* C2: a call whose first attempt fails with a terminal classification
\* invokes the transport exactly once and returns that failure at once,
\* with no backoff wait.
C2_TerminalShortCircuit ==
    (rPc = "done" /\ ~ctxCancelled /\ ClassOf(firstResp) \in TerminalClasses)
        => (calls = 1 /\ sleeps = 0 /\ ret # NoErr /\ ret.resp = firstResp)

\* C6: once the context is cancelled during a retried call, no further
\* transport attempt is started, no backoff wait is begun or sat out, and
\* the call returns the context's error.
C6_CancelAbortsRetries ==
    /\ callsAfterCancel = 0
    /\ sleepsAfterCancel = 0
    /\ (ctxCancelled => rPc # "sleep")
    /\ (rPc = "done" /\ ctxCancelled) =>
           (ret = CtxCanceled \/ (ret.wraps # <<>> /\ ret.wraps[1] = CtxCanceled))

-----------------------------------------------------------------------------
(* Properties of the endpoint resolver *)

IsPlainURL(url) ==
    /\ \/ HasPrefix(url, <<"http", ":", "/", "/">>)
       \/ HasPrefix(url, <<"https", ":", "/", "/">>)
    /\ Len(url) >= 5
    /\ url[5] \notin {"/", ":"}

\* C9: a plain http:// or https:// endpoint is resolved to itself: the call
\* is sent to exactly that URL and no parse error is raised.
C9_PlainURLUnchanged ==
    (vPc = "done" /\ IsPlainURL(apiURL)) => (vErr = "" /\ httpURL = apiURL)

\* the multiaddresses whose components are all valid
ValidComponents ==
    { c \in Components : ValidValue(c[1], <<c[2]>>) }

IsMultiaddrOf(url, cs) ==
    /\ \A k \in 1..Len(cs) : cs[k] \in ValidComponents
    /\ url = MultiaddrString(cs)

\* C10: the endpoint /ip4/A.B.C.D/tcp/P is resolved to exactly
\* http://A.B.C.D:P/rpc/v0, and for a multiaddress without an IP or without
\* a TCP component the call fails with no HTTP request sent.
C10_MultiaddrResolved ==
    vPc = "done" =>
      /\ \A a \in ValidIP4, p \in ValidPort :
            apiURL = <<"/", "ip4", "/", a, "/", "tcp", "/", p>>
              => /\ vErr = ""
                 /\ httpURL = <<"http", ":", "/", "/", a, ":", p, "/", "rpc", "/", "v0">>
      /\ \A cs \in UNION { [1..n -> ValidComponents] : n \in 1..MaxComponents } :
            ( /\ apiURL = MultiaddrString(cs)
              /\ \/ \A k \in 1..Len(cs) : cs[k][1] \notin {"ip4", "ip6"}
                 \/ \A k \in 1..Len(cs) : cs[k][1] # "tcp" )
              => (httpURL = <<>> /\ vErr # "")

\* C10 witness: a well-formed /ip4/../tcp/.. endpoint was resolved and the
\* request sent by the client of client.go
C10_Witness ==
    /\ vPc = "done"
    /\ vImpl = "client.callRPCWithRetry"
    /\ apiURL = <<"/", "ip4", "/", "1.2.3.4", "/", "tcp", "/", "1234">>
    /\ httpURL = <<"http", ":", "/", "/", "1.2.3.4", ":", "1234", "/", "rpc", "/", "v0">>


-----------------------------------------------------------------------------
(* Properties of the Domain Client and the aggregate *)

\* the messages along the chain of an error
ErrorTexts(err) == {ErrorString(err)[k] : k \in 1..Len(ErrorString(err))}

\* the messages of the failures of a foundational call: the miner-info call,
\* or the owner or worker address missing from its result
FoundationalTexts ==
    {"failed to get miner info", "owner address not found", "worker address not found"}

AggregateReturned == aPc = "returned" /\ op = "GetComprehensiveMinerInfo"

\* C3: called with a miner id, under a context that is not cancelled and
\* before the deadline, the aggregate returns an error only when a
\* foundational call has failed (miner info, or the owner/worker address in
\* it); the failure of any other sub-call never makes it return an error.
C3_OnlyFoundationalFails ==
    (AggregateReturned /\ minerID # "" /\ ~aCtx /\ timer # "fired" /\ retErr # NoErr)
        => ErrorTexts(retErr) \cap FoundationalTexts # {}

\* C4: when the miner-info call fails with NotFound, the error the aggregate
\* returns is recognised by IsNotFound and the record it returns is nil.
C4_NotFoundPropagates ==
    (AggregateReturned /\ "failed to get miner info" \in ErrorTexts(retErr)
       /\ ClassOf(retErr.resp) = "ErrNotFound")
        => (IsNotFound(retErr) /\ retInfo = "nil")

\* C5: ListSectors and the aggregate, called with an empty miner id, return
\* an error raised locally for the invalid parameter and issue no network
\* call.
C5_EmptyMinerIDIsLocal ==
    (aPc = "returned" /\ minerID = "")
        => /\ ~rpcIssued
           /\ retErr # NoErr
           /\ \/ (retErr.kind = "LotusError" /\ retErr.code = "ErrInvalidParams")
              \/ retErr.text = "miner ID cannot be empty"

\* C7: when the caller's context is cancelled while a fanned-out sub-call
\* is in flight, what the aggregate returns is the partially populated
\* record, not a nil record.
C7_CancelReturnsPartial ==
    (AggregateReturned /\ aCtx /\ \E t \in TaskIds : task[t] = "call")
        => retInfo = "info"

\* C8: when fanned-out sub-calls are still unfinished as the 30-second
\* deadline elapses (and the context is not cancelled), the aggregate
\* returns the partially populated record together with the timeout error.
C8_DeadlineReturnsTimeout ==
    (AggregateReturned /\ unfinishedAtDeadline /\ ~aCtx)
        => /\ retInfo = "info"
           /\ retErr.text = "miner info retrieval timed out after 30 seconds"

-----------------------------------------------------------------------------
(* Properties of the transport's error classification *)

\* C11: whenever the remote end answers with an HTTP status other than 200,
\* the transport (callRPCWithRetry of client.go, which checks the status)
\* returns an error of the taxonomy classified from the status as
\* handleHTTPError classifies it (401 Authentication, 404 NotFound, 500
\* Connection, else Unknown).
C11_StatusClassified ==
    (rPc = "done" /\ rImpl = "client.callRPCWithRetry" /\ ~ctxCancelled
       /\ lastResp.kind = "http" /\ lastResp.status # 200)
        => /\ ret.kind = "LotusError"
           /\ ret.code = handleHTTPError(lastResp.status).code

-----------------------------------------------------------------------------
(* Properties of the Domain Client methods *)

\* the errors reachable from err by unwrapping (errors.Unwrap)
RECURSIVE Chain(_)
Chain(err) == {err} \cup (IF err.wraps # <<>> THEN Chain(err.wraps[1]) ELSE {})

\* C12: a Domain Client method (GetMinerInfo, GetMinerInitialPledgeCollateral)
\* that has seen one of its transport calls fail returns an error, and the
\* transport's own error is still reachable from the error it returns.
C12_NoErrorSwallowed ==
    (aPc = "returned" /\ op \in {"GetMinerInfo", "GetMinerInitialPledgeCollateral"}
       /\ failures > 0)
        => /\ retErr # NoErr
           /\ client_callRPCWithRetry(retErr.resp) \in Chain(retErr)

-----------------------------------------------------------------------------
(* Properties of the display formatters *)

\* an optional sign followed by one or more decimal digits, and nothing else
IsDecimalInteger(str) ==
    LET rest == IF str # <<>> /\ Head(str) \in {"+", "-"} THEN Tail(str) ELSE str
    IN rest # <<>> /\ \A k \in 1..Len(rest) : rest[k] \in DigitChars

\* an unsigned decimal integer above zero
IsPositive(str) ==
    /\ str # <<>>
    /\ \A k \in 1..Len(str) : str[k] \in DigitChars
    /\ \E k \in 1..Len(str) : str[k] # "0"

BytesFormatted == fPc = "done" /\ fImpl \in {"client.formatBytes", "miner.formatBytes"}

FilFormatted == fPc = "done" /\ fImpl \in {"client.formatAttoFil", "miner.formatFIL"}

\* C13: formatBytes returns exactly "0 B" for "0", for the empty string and
\* for every argument that is not a decimal integer.
C13_ZeroBytes ==
    (BytesFormatted /\ (fIn = <<"0">> \/ fIn = <<>> \/ ~IsDecimalInteger(fIn)))
        => fOut = <<"0", " ", "B">>

\* the decimal digits of 1024^1 .. 1024^6
Pow1024 ==
    << <<1,0,2,4>>, <<1,0,4,8,5,7,6>>, <<1,0,7,3,7,4,1,8,2,4>>,
       <<1,0,9,9,5,1,1,6,2,7,7,7,6>>, <<1,1,2,5,8,9,9,9,0,6,8,4,2,6,2,4>>,
       <<1,1,5,2,9,2,1,5,0,4,6,0,6,8,4,6,9,7,6>> >>

\* a >= b for natural numbers given by their digits
RECURSIVE GreaterEq(_, _)
GreaterEq(a, b) ==
    IF Len(a) # Len(b) THEN Len(a) > Len(b)
    ELSE IF a = <<>> THEN TRUE
    ELSE IF Head(a) # Head(b) THEN Head(a) > Head(b)
    ELSE GreaterEq(Tail(a), Tail(b))

\* min(6, the largest k with v >= 1024^k)
UnitIndex(v) == Cardinality({k \in 1..Len(Pow1024) : GreaterEq(v, Pow1024[k])})

\* C14: for a positive byte count v, formatBytes renders v / 1024^k with two
\* decimals in the unit of index k = min(6, largest k with v >= 1024^k):
\* "1024" gives "1.00 KiB", "1073741824" gives "1.00 GiB", "1023" stays in B
\* and 1024^7 stays in EiB.
C14_UnitAndTwoDecimals ==
    (BytesFormatted /\ IsPositive(fIn)) =>
        /\ Len(fOut) = 5
        /\ fOut[2] = "."
        /\ fOut[3] \in {Padded(c, 2) : c \in 0..99}
        /\ fOut[5] = units[UnitIndex(StripZeros(DigitPrefix(fIn))) + 1]
        /\ fIn = Chars(<<1,0,2,4>>) => fOut = <<"1", ".", "00", " ", "KiB">>
        /\ fIn = Chars(<<1,0,7,3,7,4,1,8,2,4>>) => fOut = <<"1", ".", "00", " ", "GiB">>
        /\ fIn = Chars(<<1,0,2,3>>) => fOut = <<"1023", ".", "00", " ", "B">>

\* C15: the currency formatter renders the amount a as a / 10^18 with six
\* decimals and the suffix FIL (checked on the amounts that are multiples of
\* 10^12, "1000000000000000000" giving "1.000000 FIL"), and returns exactly
\* "0 FIL" for the empty string and for an argument that is not a decimal
\* integer.
C15_AttoFilSixDecimals ==
    FilFormatted =>
        /\ (fIn = <<>> \/ ~IsDecimalInteger(fIn)) => fOut = <<"0", " ", "FIL">>
        /\ (IsPositive(fIn) /\ \A k \in 1..12 : Low(DigitPrefix(fIn), 12)[k] = 0) =>
              LET a == StripZeros(DigitPrefix(fIn))
                  d == Low(a, 18)
              IN fOut = <<DecString(High(a, 18)), ".",
                          ToString(d[1]) \o ToString(d[2]) \o ToString(d[3])
                            \o ToString(d[4]) \o ToString(d[5]) \o ToString(d[6]),
                          " ", "FIL">>
        /\ fIn = Chars(<<1,0,0,0,0,0,0,0,0,0,0,0,0,0,0,0,0,0,0>>)
              => fOut = <<"1", ".", "000000", " ", "FIL">>

-----------------------------------------------------------------------------
(* Properties of the construction of a client *)

\* the configuration as the caller left it: nil leaves every field unset
Given == IF kCfg = <<>> THEN [APIURL |-> <<>>, Timeout |-> 0, RetryCount |-> 0] ELSE kCfg[1]

\* C16: a client built from a configuration whose endpoint, timeout and
\* retryCount are unset uses the loopback endpoint, a timeout of 30s and
\* retryCount 3, so that a call that keeps failing retryably is attempted 4
\* times; a retryCount that is set is honoured as given.
C16_Defaults ==
    kPc = "done" =>
        /\ Given.APIURL = <<>> => kClient.apiURL = LoopbackURL
        /\ Given.Timeout = 0 => kClient.timeout = 30
        /\ Given.RetryCount = 0 => kAttempts = 4
        /\ Given.RetryCount # 0 => kAttempts = Given.RetryCount + 1

-----------------------------------------------------------------------------
(* Properties of the sectors commands *)

\* C17: a non-empty --api-url or --auth-token flag value is the endpoint or
\* token the Lotus client is constructed with, whatever the configuration
\* holds.
C17_FlagsOverride ==
    sPc = "built" =>
        /\ sFlags.apiURL # "" => sClient.apiURL = sFlags.apiURL
        /\ sFlags.authToken # "" => sClient.token = sFlags.authToken

-----------------------------------------------------------------------------
(* Properties of the aggregate's fan-out *)

\* C18: when the aggregate has returned its record without an error (the
\* branch of the select that receives from done), every fanned-out sub-task
\* has finished all its attempts: none is calling the node, is about to
\* write a field of the record, or sleeps before another attempt.
C18_JoinCoversAttempts ==
    (AggregateReturned /\ aImpl = "client" /\ retInfo = "info" /\ retErr = NoErr)
        => \A t \in TaskIds : task[t] = "end"

-----------------------------------------------------------------------------
(* Properties of the classifiers *)

\* C19: the retry predicate is true for every failure of the transient set:
\* connection reset, connection refused, timeouts, network unreachable, the
\* HTTP statuses 500, 503 and 504, and an error whose text is "EOF" or
\* "unexpected EOF", alone or behind the transport's prefix.
C19_TransientIsRetryable ==
    (qPc = "done" /\ qFn = "isRetryableError"
       /\ qText \in TransientTexts \cup {SendPrefix \o t : t \in TransientTexts})
        => qRetry

\* C20: handleRPCError maps -32001 to InvalidParams, -32002 to
\* MethodNotFound, -32003 to InvalidRequest and every other code, -32000
\* included, to Unknown; -32002 is never reported as NotFound.
C20_RPCCodeClassified ==
    (qPc = "done" /\ qFn \in {"rpc.handleRPCError", "part011.handleRPCError"})
        => /\ qErr.kind = "LotusError"
           /\ qErr.code = CASE qCode = -32001 -> "ErrInvalidParams"
                             [] qCode = -32002 -> "ErrMethodNotFound"
                             [] qCode = -32003 -> "ErrInvalidRequest"
                             [] OTHER -> "ErrUnknown"

-----------------------------------------------------------------------------
(* Properties of the aggregate's concurrency limit *)

\* the sub-tasks whose function is running or which wait for another attempt
InFlight == {t \in TaskIds : task[t] \in {"call", "sleep"}}

\* C25: during the aggregate at most maxConcurrency sub-task calls are in
\* flight at any time: every sub-task whose function or retries are running
\* holds a slot of the semaphore.
C25_SlotHeldWhileRunning ==
    aImpl = "client" =>
        /\ Cardinality(InFlight) <= maxConcurrency
        /\ Cardinality(InFlight) <= sem

\* C26: no worker of the aggregate sends on the semaphore channel after
\* GetComprehensiveMinerInfo has closed it on return, whichever branch of
\* the select it returned through.
C26_NoSendOnClosedSemaphore ==
    (aImpl = "client" /\ semClosed) => \A t \in TaskIds : task[t] # "panic"

-----------------------------------------------------------------------------
(* Properties of the parameter lists *)

\* C21: every miner-scoped method sends a positional list that starts with
\* the miner identifier and holds the explicit null of the tipset key:
\* ListSectors sends [minerID, null, false], GetMinerPartitions sends
\* [minerID, deadlineIndex, null], the others send [minerID, null].
C21_ParamsCarryNull ==
    jPc = "sent" =>
        LET id == "\"" \o jMinerID \o "\""
        IN jBody = CASE jMethod \in {"ListSectors", "ListSectors:1293"} ->
                            <<id, "null", "false">>
                     [] jMethod = "GetMinerPartitions" ->
                            <<id, ToString(jDlIdx), "null">>
                     [] OTHER -> <<id, "null">>

-----------------------------------------------------------------------------
(* Properties of the network power share *)

\* the number a string of decimal digits denotes
ValueOf(str) == Int64(StripZeros(DigitPrefix(str)))

\* a non-empty string of decimal digits
IsNatural(str) == str # <<>> /\ \A k \in 1..Len(str) : str[k] \in DigitChars

\* C22: for 0 <= rawBytePower <= networkRawBytePower and networkRawBytePower
\* > 0 the power share is the fraction rawBytePower / networkRawBytePower, a
\* value in [0,1] and not a percentage, and the number the statistics
\* display prints is that fraction scaled by 100 once.
C22_ShareIsFraction ==
    (hPc = "shown" /\ hImpl = "client" /\ IsNatural(hPower) /\ IsNatural(hNet)
       /\ ValueOf(hNet) > 0 /\ ValueOf(hPower) <= ValueOf(hNet))
        => /\ hShare.kind = "num"
           /\ hShare.num * ValueOf(hNet) = ValueOf(hPower) * hShare.den
           /\ 0 <= hShare.num /\ hShare.num <= hShare.den
           /\ hStat.kind = "num"
           /\ hStat.num * ValueOf(hNet) = 100 * ValueOf(hPower) * hStat.den

\* C28: calculatePowerShare returns 0, and neither divides by zero nor
\* panics, when the miner power or the network power is empty or is not a
\* decimal integer, or when the network power is zero.
C28_ShareZeroOnBadInput ==
    (hPc \in {"computed", "shown"}
       /\ (~IsDecimalInteger(hPower) \/ ~IsDecimalInteger(hNet) \/ ValueOf(hNet) = 0))
        => hShare = Quotient(0, 1)

-----------------------------------------------------------------------------
(* Properties of the sector counts *)

\* C23: in the record of a successful aggregate the active sector count is
\* the total sector count minus the number of faulty sectors, and it is not
\* a wrapped-around unsigned value.
C23_ActiveIsTotalMinusFaulty ==
    nDone = {"sector_info", "faults"} =>
        /\ ~nRec.active.wrapped
        /\ nRec.active.v = nRec.total - nRec.faulty

-----------------------------------------------------------------------------
(* Properties of LoadFilConfig *)

\* C24: LoadFilConfig resolves the Lotus URL with the priority .thctl.env
\* of the current directory, .thctl.env of the home directory, process
\* environment, defaults: when the file found first defines LOTUS_API_URL
\* its value is the one returned, whatever the process environment holds;
\* without a file the environment's value is returned, and without either
\* the default.
C24_FileBeforeEnvironment ==
    ePc = "done" =>
        LET file == FirstFound(eCwd, eHome)
        IN /\ (file # <<>> /\ file[1] # "") => eURL = file[1]
           /\ (file = <<>> /\ eEnv # "") => eURL = eEnv
           /\ (file = <<>> /\ eEnv = "") => eURL = "http://127.0.0.1:1234/rpc/v0"

-----------------------------------------------------------------------------
(* Properties of config.Load *)

\* C29: config.Load gives the same outcome on every call in a process: when
\* the first call returned an error every later call returns an error, and
\* no call returns with a nil error a configuration whose Lotus fields are
\* unset.
C29_LoadIsStable ==
    oLoads >= 1 =>
        /\ oFirstErr => oRet.err # ""
        /\ oRet.err = "" => (oRet.cfg # <<>> /\ oRet.cfg[1].APIURL # "")

-----------------------------------------------------------------------------
(* Properties of GetMinerPowerRank *)

\* the listed miners whose power is numerically greater than the miner's
Above(key, miner) ==
    {m \in 1..Len(key) : ValueOf(key[m]) > ValueOf(key[miner])}

\* C27: the raw (resp. quality-adjusted) rank returned for a miner is 1 plus
\* the number of listed miners whose decimal-string power is numerically
\* greater.
C27_RankIsNumeric ==
    mPc = "returned" =>
        /\ mRawRank = 1 + Cardinality(Above(mRaw, mTarget))
        /\ mAdjRank = 1 + Cardinality(Above(mAdj, mTarget))

-----------------------------------------------------------------------------
(* Properties of the authentication callback *)

\* C30: every POST to /callback with a decodable body is answered in the
\* end: a handler that has come to hand the credentials over goes on to
\* its response, also the second one and one arriving after WaitForCallback
\* has returned; and the server goroutine that has an error to report
\* reports it in the end.
C30_CallbackAnswered ==
    /\ \A r \in Requests : (bHandler[r] = "sending") ~> (bHandler[r] = "answered")
    /\ (bServer = "failing") ~> (bServer = "reported")

=============================================================================
